---- MODULE Spec2Model ----
(***************************************************************************)
(* HookDash: webhook ingestion, per-endpoint forwarding configuration and  *)
(* the retrying forwarding engine, as a state machine over the relational  *)
(* store (endpoints, webhook_requests, forwarding_configs,                 *)
(* forwarding_logs) and the detached background forwarding tasks.         *)
(*                                                                         *)
(* A request handler runs in its own storage session that is committed     *)
(* when the handler returns; a handler is one action, and the response it  *)
(* gives its caller is an operator of the state it ran in and its inputs   *)
(* (CreateResponse, ReceiveResponse, SaveResponse, ...).  The detached     *)
(* forwarding task has its own session and is one action per suspension    *)
(* point (target call, backoff sleep) plus its final commit.  SpecIngest   *)
(* takes the inbound handler apart at the point where it waits for the     *)
(* request body, between loading the endpoint and writing, so that inbound *)
(* calls overlap each other and the owner's operations.  SpecSave and      *)
(* SpecCreate do the same for the owner's save of a forwarding config and  *)
(* create of an endpoint, between their reads and their write.             *)
(* SpecEndpoints, SpecForward, SpecStats and SpecRetry run one part of the *)
(* program alone on inputs at the edges of what it accepts.  The store is  *)
(* taken to enforce the foreign keys the models declare.                   *)
(***************************************************************************)
EXTENDS Integers, Sequences, FiniteSets, TLC

VARIABLES
    endpoints,   \* endpoint id -> Endpoint row            (table endpoints)
    requests,    \* request id -> WebhookRequest row       (table webhook_requests)
    configs,     \* config id -> ForwardingConfig row      (table forwarding_configs)
    logs,        \* committed ForwardingLog rows, in creation order
    tasks,       \* task id -> detached forwarding task (own session)
    nextId,      \* fresh-id source (uuid4 never repeats) and call counters
    dispatched,  \* number of HTTP calls sent to forwarding targets so far
    target,      \* what the forwarding target may answer to a call (environment)
    inbound,     \* call id -> accepted inbound call waiting for its body
    pending      \* call id -> owner operation between its reads and its write

vars == <<endpoints, requests, configs, logs, tasks, nextId, dispatched, target,
          inbound, pending>>

dbvars == <<endpoints, requests, configs, logs>>

----------------------------------------------------------------------------
(* Bounds of the model *)

MaxEndpoints == 2   \* endpoints ever created
MaxRequests  == 1   \* inbound calls ever accepted (Spec)
MaxConfigs   == 1   \* forwarding configs ever inserted
MaxReplays   == 1   \* manual replays ever dispatched
MaxIngest    == 2   \* inbound calls ever accepted (SpecIngest)
MaxSaves     == 3   \* saves of a forwarding config that reach their write (SpecSave)
MaxForwardCalls == 2 \* calls of forward_webhook (SpecForward)
MaxLogRows   == 3   \* rows written with create_forwarding_log (SpecStats)
MaxCreates   == 3   \* creates of an endpoint that pass the plan check (SpecCreate)

(* Program constants *)

max_body_size      == 1048576
free_max_endpoints == 2
MaxRetriesLimit    == 10
MinRetries         == 1
MinTimeout         == 5
MaxTimeout         == 120
DefaultRetries     == 5
DefaultTimeout     == 30
BackoffCap         == 30
NameLimit          == 255

Users == {"u1", "u2"}

Max(a, b) == IF a >= b THEN a ELSE b
Min(a, b) == IF a <= b THEN a ELSE b

RECURSIVE Pow2(_)
Pow2(n) == IF n <= 0 THEN 1 ELSE 2 * Pow2(n - 1)

----------------------------------------------------------------------------
(* Text.  A string that the code inspects character by character is a      *)
(* sequence of one-character strings.                                      *)

Absent == <<"ABSENT">>          \* form.get(...) / headers.get(...) found no value

SetMin(S) == CHOOSE x \in S : \A y \in S : x <= y
SetMax(S) == CHOOSE x \in S : \A y \in S : x >= y

IsSpace(c) == c \in {" ", "\t", "\n"}

\* str.strip()
Strip(s) ==
    LET keep == {i \in 1..Len(s) : ~IsSpace(s[i])}
    IN  IF keep = {} THEN <<>> ELSE SubSeq(s, SetMin(keep), SetMax(keep))

\* str.startswith(p)
StartsWith(s, p) == Len(s) >= Len(p) /\ SubSeq(s, 1, Len(p)) = p

DigitChars == <<"0", "1", "2", "3", "4", "5", "6", "7", "8", "9">>

IsDigitChar(c) == \E d \in 1..10 : DigitChars[d] = c

DigitVal(c) == (CHOOSE d \in 1..10 : DigitChars[d] = c) - 1

\* str.isdigit(): non-empty and every character a digit
IsDigit(s) == Len(s) > 0 /\ \A i \in 1..Len(s) : IsDigitChar(s[i])

RECURSIVE DigitsVal(_)
DigitsVal(s) ==
    IF Len(s) = 0 THEN 0
    ELSE 10 * DigitsVal(SubSeq(s, 1, Len(s) - 1)) + DigitVal(s[Len(s)])

\* int(str): surrounding whitespace and one sign are allowed
IntBody(s) ==
    LET t == Strip(s)
    IN  IF Len(t) > 0 /\ t[1] \in {"+", "-"} THEN SubSeq(t, 2, Len(t)) ELSE t

IsIntLiteral(s) == IsDigit(IntBody(s))

IntValue(s) ==
    LET t == Strip(s)
    IN  IF t[1] = "-" THEN 0 - DigitsVal(IntBody(s)) ELSE DigitsVal(IntBody(s))

\* str(n) for n >= 0
RECURSIVE DecStr(_)
DecStr(n) ==
    IF n < 10 THEN <<DigitChars[n + 1]>>
    ELSE Append(DecStr(n \div 10), DigitChars[(n % 10) + 1])

----------------------------------------------------------------------------
(* HTTP responses *)

NoLoc == <<"", 0, "">>

\* Response(content, status_code, media_type)
Response(status, body, ctype) ==
    [status |-> status, body |-> body, ctype |-> ctype, loc |-> NoLoc]

\* RedirectResponse(url, status_code=302); url = path of endpoint eid [?fwd_error=err]
RedirectResponse(path, eid, err) ==
    [status |-> 302, body |-> "", ctype |-> "", loc |-> <<path, eid, err>>]

\* templates.TemplateResponse(request, name, ..., status_code)
TemplateResponse(name, status) ==
    [status |-> status, body |-> name, ctype |-> "text/html", loc |-> NoLoc]

\* an unhandled exception in a handler: the framework answers 500
ServerError == Response(500, "Internal Server Error", "text/plain")

On == <<"o", "n">>

----------------------------------------------------------------------------
(* Endpoint registry: services/endpoint.py *)

\* User.plan of every registered user
Plan(u) == "free"

PLAN_ENDPOINT_LIMITS(plan) ==
    CASE plan = "free" -> free_max_endpoints
      [] plan = "pro"  -> 25
      [] plan = "team" -> 999999
      [] OTHER         -> free_max_endpoints

EndpointIds == DOMAIN endpoints

get_endpoint_count(u) == Cardinality({e \in EndpointIds : endpoints[e].user_id = u})

can_create_endpoint(u) == get_endpoint_count(u) < PLAN_ENDPOINT_LIMITS(Plan(u))

\* a lookup that forgets the owner
get_endpoint_AnyOwner(eid, u) == IF eid \in EndpointIds THEN eid ELSE 0

\* owner-scoped lookup: the id, or 0 for "not found"
get_endpoint(eid, u) ==
    IF eid \in EndpointIds /\ endpoints[eid].user_id = u THEN eid ELSE 0

\* lookup without the owner check (webhook receiver)
get_endpoint_by_id(eid) == IF eid \in EndpointIds THEN eid ELSE 0

\* forwarding_configs has a unique endpoint_id: zero or one config; 0 for none
get_forwarding_config(eid) ==
    LET found == {c \in DOMAIN configs : configs[c].endpoint_id = eid}
    IN  IF found = {} THEN 0 ELSE CHOOSE c \in found : TRUE

\* a lookup by request id alone
get_webhook_request_AnyEndpoint(rid, eid) ==
    IF rid \in DOMAIN requests THEN rid ELSE 0

\* request scoped to its endpoint, or 0
get_webhook_request(rid, eid) ==
    IF rid \in DOMAIN requests /\ requests[rid].endpoint_id = eid THEN rid ELSE 0

\* a function without the keys in S
Without(f, S) == [k \in DOMAIN f \ S |-> f[k]]

\* a function with one more key
With(f, k, v) == [x \in DOMAIN f \cup {k} |-> IF x = k THEN v ELSE f[x]]

\* ORM cascade "all, delete-orphan": Endpoint -> WebhookRequest -> ForwardingLog,
\* Endpoint -> ForwardingConfig -> ForwardingLog
\* every stored request, whatever its endpoint
RequestsOf_All(eid) == DOMAIN requests

RequestsOf(eid) == {r \in DOMAIN requests : requests[r].endpoint_id = eid}

ConfigsOf(eid) == {c \in DOMAIN configs : configs[c].endpoint_id = eid}

LogsWithout(cs, rs) ==
    SelectSeq(logs, LAMBDA l : l.forwarding_config_id \notin cs
                               /\ l.webhook_request_id \notin rs)

\* a delete that leaves the logs of the endpoint's config behind
delete_endpoint_KeepsLogs(eid) ==
    [endpoints |-> Without(endpoints, {eid}),
     requests  |-> Without(requests, RequestsOf(eid)),
     configs   |-> Without(configs, ConfigsOf(eid)),
     logs      |-> logs]

\* db.delete(endpoint) with its cascades, as the four tables afterwards
delete_endpoint(eid) ==
    [endpoints |-> Without(endpoints, {eid}),
     requests  |-> Without(requests, RequestsOf(eid)),
     configs   |-> Without(configs, ConfigsOf(eid)),
     logs      |-> LogsWithout(ConfigsOf(eid), RequestsOf(eid))]

----------------------------------------------------------------------------
(* Owner-facing endpoint operations: api/endpoints.py *)

AbsentStr == "<absent>"

FormStr(v, default) == IF v = AbsentStr THEN default ELSE v

FormText(v) == IF v = Absent THEN <<>> ELSE v

\* int(form.get(key, default)) raises ValueError on a non-numeric value
IntRaises(v) == v # Absent /\ ~IsIntLiteral(v)

IntOr(v, default) == IF v = Absent THEN default ELSE IntValue(v)

CodeInRange_UpTo600(code) == ~(code < 100 \/ code > 600)

CodeInRange(code) == ~(code < 100 \/ code > 599)

\* create_endpoint
NewEndpoint(u, name, code, body, ctype) ==
    [user_id |-> u, name |-> Strip(name), is_active |-> TRUE,
     response_code |-> code, response_body |-> body,
     response_content_type |-> ctype, request_count |-> 0]

\* the branch POST /endpoints/new takes
CreateOutcome(u, f) ==
    LET name == Strip(FormText(f.name))
    IN  IF IntRaises(f.response_code) THEN "error"
        ELSE IF name = <<>> THEN "name_required"
        ELSE IF Len(name) > NameLimit THEN "name_too_long"
        ELSE IF ~CodeInRange(IntOr(f.response_code, 200)) THEN "bad_code"
        ELSE IF ~can_create_endpoint(u) THEN "limit"
        ELSE "create"

CreateResponse(u, f) ==
    LET out == CreateOutcome(u, f)
    IN  CASE out = "create" -> RedirectResponse("/endpoints/{id}", nextId.e, "")
          [] out = "error"  -> ServerError
          [] out = "limit"  -> TemplateResponse("endpoints/new.html", 403)
          [] OTHER          -> TemplateResponse("endpoints/new.html", 422)

endpoint_create(u, f) ==
    LET id == nextId.e
    IN  /\ IF CreateOutcome(u, f) = "create"
           THEN /\ endpoints' = With(endpoints, id,
                       NewEndpoint(u, Strip(FormText(f.name)),
                                   IntOr(f.response_code, 200),
                                   FormStr(f.response_body, "{\"ok\": true}"),
                                   FormStr(f.response_content_type, "application/json")))
                /\ nextId' = [nextId EXCEPT !.e = id + 1]
           ELSE UNCHANGED <<endpoints, nextId>>
        /\ UNCHANGED <<requests, configs, logs, tasks, dispatched, target, inbound, pending>>

\* POST /endpoints/new up to the answer of can_create_endpoint: the handler
\* has validated the form and counted the user's endpoints, and suspends in
\* create_endpoint
CreateRead(u, f) ==
    IF CreateOutcome(u, f) = "create"
    THEN /\ pending' = With(pending, nextId.h,
                            [op |-> "create",
                             endpoint |-> NewEndpoint(u, Strip(FormText(f.name)),
                                 IntOr(f.response_code, 200),
                                 FormStr(f.response_body, "{\"ok\": true}"),
                                 FormStr(f.response_content_type, "application/json"))])
         /\ nextId' = [nextId EXCEPT !.h = @ + 1]
         /\ UNCHANGED <<endpoints, requests, configs, logs, tasks, dispatched, target, inbound>>
    ELSE UNCHANGED vars

\* create_endpoint flushes the INSERT and the request's transaction commits:
\* no constraint of the endpoints table looks at the user's other rows
CreateWrite(k) ==
    /\ pending[k].op = "create"
    /\ endpoints' = With(endpoints, nextId.e, pending[k].endpoint)
    /\ nextId' = [nextId EXCEPT !.e = @ + 1]
    /\ pending' = Without(pending, {k})
    /\ UNCHANGED <<requests, configs, logs, tasks, dispatched, target, inbound>>

\* GET /endpoints/{id}
DetailResponse(u, eid) ==
    IF get_endpoint(eid, u) = 0
    THEN TemplateResponse("endpoints/not_found.html", 404)
    ELSE TemplateResponse("endpoints/detail.html", 200)

endpoint_detail(u, eid) == UNCHANGED vars

\* the branch POST /endpoints/{id}/edit takes
UpdateOutcome(u, eid, f) ==
    LET e == get_endpoint(eid, u)
    IN  IF e = 0 THEN "not_found"
        ELSE IF IntRaises(f.response_code) THEN "error"
        ELSE IF Strip(FormText(f.name)) = <<>> THEN "name_required"
        ELSE IF ~CodeInRange(IntOr(f.response_code, endpoints[e].response_code))
             THEN "bad_code"
        ELSE "update"

UpdateResponse(u, eid, f) ==
    LET out == UpdateOutcome(u, eid, f)
    IN  CASE out = "update"    -> RedirectResponse("/endpoints/{id}", eid, "")
          [] out = "not_found" -> TemplateResponse("endpoints/not_found.html", 404)
          [] out = "error"     -> ServerError
          [] OTHER             -> TemplateResponse("endpoints/edit.html", 422)

\* update_endpoint with every field given
update_endpoint(e, f) ==
    [e EXCEPT !.name = Strip(Strip(FormText(f.name))),
              !.is_active = (f.is_active = On),
              !.response_code = IntOr(f.response_code, @),
              !.response_body = FormStr(f.response_body, @),
              !.response_content_type = FormStr(f.response_content_type, @)]

endpoint_update(u, eid, f) ==
    /\ IF UpdateOutcome(u, eid, f) = "update"
       THEN endpoints' = [endpoints EXCEPT ![eid] = update_endpoint(@, f)]
       ELSE UNCHANGED endpoints
    /\ UNCHANGED <<requests, configs, logs, tasks, nextId, dispatched, target, inbound, pending>>

\* POST /endpoints/{id}/delete
RemoveResponse(u, eid) ==
    IF get_endpoint(eid, u) = 0
    THEN TemplateResponse("endpoints/not_found.html", 404)
    ELSE RedirectResponse("/endpoints", 0, "")

endpoint_remove(u, eid) ==
    /\ IF get_endpoint(eid, u) = 0
       THEN UNCHANGED dbvars
       ELSE /\ endpoints' = delete_endpoint(eid).endpoints
            /\ requests' = delete_endpoint(eid).requests
            /\ configs' = delete_endpoint(eid).configs
            /\ logs' = delete_endpoint(eid).logs
    /\ UNCHANGED <<tasks, nextId, dispatched, target, inbound, pending>>

----------------------------------------------------------------------------
(* Forwarding engine: services/forwarding.py *)

None == 0                       \* status_code = None (NULL)

HttpOk      == [kind |-> "response", status |-> 200, msg |-> ""]
HttpFail    == [kind |-> "response", status |-> 500, msg |-> ""]
TimedOut    == [kind |-> "timeout",  status |-> None, msg |-> ""]
Refused     == [kind |-> "connect",  status |-> None, msg |-> ""]
OtherError  == [kind |-> "error",    status |-> None, msg |-> "SSL handshake failed"]

TargetOutcomes == {HttpOk, HttpFail, TimedOut, Refused, OtherError}

\* a range that counts 300 as delivered
IsSuccess_UpTo300(status) == 200 <= status /\ status <= 300

\* success = 200 <= resp.status_code < 300
IsSuccess(status) == 200 <= status /\ status < 300

\* a row that always carries the default attempt number
forward_webhook_Unnumbered(cid, rid, timeout_seconds, attempt, o) ==
    [forwarding_config_id |-> cid,
     webhook_request_id   |-> rid,
     status_code   |-> IF o.kind = "response" THEN o.status ELSE None,
     success       |-> o.kind = "response" /\ IsSuccess(o.status),
     error_message |->
         CASE o.kind = "response" ->
                  IF IsSuccess(o.status) THEN "" ELSE "HTTP " \o ToString(o.status)
           [] o.kind = "timeout" -> "Timeout after " \o ToString(timeout_seconds) \o "s"
           [] o.kind = "connect" -> "Connection refused"
           [] OTHER -> o.msg,
     attempt_number |-> 1]

\* the ForwardingLog row forward_webhook writes for one attempt's outcome
forward_webhook(cid, rid, timeout_seconds, attempt, o) ==
    [forwarding_config_id |-> cid,
     webhook_request_id   |-> rid,
     status_code   |-> IF o.kind = "response" THEN o.status ELSE None,
     success       |-> o.kind = "response" /\ IsSuccess(o.status),
     error_message |->
         CASE o.kind = "response" ->
                  IF IsSuccess(o.status) THEN "" ELSE "HTTP " \o ToString(o.status)
           [] o.kind = "timeout" -> "Timeout after " \o ToString(timeout_seconds) \o "s"
           [] o.kind = "connect" -> "Connection refused"
           [] OTHER -> o.msg,
     attempt_number |-> attempt]

\* a try block without the last clause, except Exception
Caught_OnlyNamed(o) == o.kind \in {"response", "timeout", "connect"}

\* the except clauses of forward_webhook: TimeoutException, ConnectError, Exception
Caught(o) == o.kind \in {"response", "timeout", "connect", "error"}

\* one call forward_webhook(db, config, webhook_request, attempt) on the stored
\* config 1 and request 1: the request goes out, the outcome is classified and
\* create_forwarding_log adds the row; an exception no clause catches leaves
\* the function before the row is written
ForwardOnce(attempt, o) ==
    /\ o \in target
    /\ dispatched' = dispatched + 1
    /\ logs' = IF Caught(o)
               THEN Append(logs, forward_webhook(1, 1, configs[1].timeout_seconds,
                                                 attempt, o))
               ELSE logs
    /\ UNCHANGED <<endpoints, requests, configs, tasks, nextId, target, inbound, pending>>

\* a backoff that keeps doubling past the cap
BackoffDelay_Uncapped(attempt) == Pow2(attempt - 1)

\* delay = min(2 ** (attempt - 1), 30)
BackoffDelay(attempt) == Min(Pow2(attempt - 1), BackoffCap)

NoRow == [forwarding_config_id |-> 0, webhook_request_id |-> 0, status_code |-> None,
          success |-> FALSE, error_message |-> "", attempt_number |-> 0]

\* a retry loop that gives up as soon as one attempt gets no response at all
RetryContinues_StopOnNoResponse(row, attempt, max_retries) ==
    ~row.success /\ attempt < max_retries /\ row.status_code # None

\* a retry loop that stops one attempt short of max_retries
RetryContinues_GivesUpEarly(row, attempt, max_retries) ==
    ~row.success /\ attempt + 1 < max_retries

\* forward_with_retries after attempt `attempt` wrote `row`: sleep and go on?
RetryContinues(row, attempt, max_retries) == ~row.success /\ attempt < max_retries

\* a detached task as add_task queued it (pc = "start"): nothing loaded yet
NewTask(cid, rid, eid) ==
    [pc |-> "start", forwarding_config_id |-> cid, webhook_request_id |-> rid,
     endpoint_id |-> eid, attempt |-> 0, max_retries |-> 0, timeout_seconds |-> 0,
     rows |-> <<>>, pauses |-> <<>>, ret |-> NoRow]

\* a task that does not look at the active flag it re-reads
TaskRuns_IgnoresActive(cid, rid) ==
    cid \in DOMAIN configs /\ rid \in DOMAIN requests

\* if config and webhook_req and config.is_active
TaskRuns(cid, rid) ==
    cid \in DOMAIN configs /\ rid \in DOMAIN requests /\ configs[cid].is_active

\* _forward_in_background: open a session, re-fetch config and request by id;
\* forward_with_retries then sends attempt 1 and suspends in the target call
BgStart(t) ==
    LET k   == tasks[t]
        cid == k.forwarding_config_id
    IN  /\ k.pc = "start"
        /\ IF TaskRuns(cid, k.webhook_request_id)
           THEN IF configs[cid].max_retries >= 1
                THEN /\ tasks' = [tasks EXCEPT ![t] =
                            [@ EXCEPT !.pc = "inflight", !.attempt = 1,
                                      !.max_retries = configs[cid].max_retries,
                                      !.timeout_seconds = configs[cid].timeout_seconds]]
                     /\ dispatched' = dispatched + 1
                ELSE /\ tasks' = [tasks EXCEPT ![t].pc = "commit"]
                     /\ dispatched' = dispatched
           ELSE /\ tasks' = Without(tasks, {t})
                /\ dispatched' = dispatched
        /\ UNCHANGED <<endpoints, requests, configs, logs, nextId, target, inbound, pending>>

\* the store checks the foreign keys a ForwardingLog row declares when the row
\* is flushed and when its transaction commits
ForeignKeysHold(row) ==
    /\ row.forwarding_config_id \in DOMAIN configs
    /\ row.webhook_request_id \in DOMAIN requests

\* a task whose session commits every row as soon as it is written
BgComplete_CommitsEachRow(t, o) ==
    LET k   == tasks[t]
        row == forward_webhook(k.forwarding_config_id, k.webhook_request_id,
                               k.timeout_seconds, k.attempt, o)
    IN  /\ k.pc = "inflight"
        /\ o \in target
        /\ IF ForeignKeysHold(row)
           THEN /\ logs' = Append(logs, row)
                /\ tasks' = [tasks EXCEPT ![t] =
                       [@ EXCEPT !.pc = IF RetryContinues(row, k.attempt, k.max_retries)
                                        THEN "sleep" ELSE "commit",
                                 !.ret = IF RetryContinues(row, k.attempt, k.max_retries)
                                         THEN NoRow ELSE row]]
           ELSE /\ logs' = logs
                /\ tasks' = Without(tasks, {t})
        /\ UNCHANGED <<endpoints, requests, configs, nextId, dispatched, target, inbound, pending>>

\* the target answers (or the call fails): classify, flush the log row into the
\* task's session, then return the row or suspend in the backoff sleep; a flush
\* the store refuses raises into _forward_in_background, which rolls back
BgComplete(t, o) ==
    LET k   == tasks[t]
        row == forward_webhook(k.forwarding_config_id, k.webhook_request_id,
                               k.timeout_seconds, k.attempt, o)
    IN  /\ k.pc = "inflight"
        /\ o \in target
        /\ IF ForeignKeysHold(row)
           THEN tasks' = [tasks EXCEPT ![t] =
                    [@ EXCEPT !.rows = Append(@, row),
                              !.pc = IF RetryContinues(row, k.attempt, k.max_retries)
                                     THEN "sleep" ELSE "commit",
                              !.ret = IF RetryContinues(row, k.attempt, k.max_retries)
                                      THEN NoRow ELSE row]]
           ELSE tasks' = Without(tasks, {t})
        /\ UNCHANGED <<endpoints, requests, configs, logs, nextId, dispatched, target, inbound, pending>>

\* asyncio.sleep(delay) is over: the loop sends the next attempt
BgSleep(t) ==
    /\ tasks[t].pc = "sleep"
    /\ tasks' = [tasks EXCEPT ![t] =
           [@ EXCEPT !.pauses = Append(@, BackoffDelay(tasks[t].attempt)),
                     !.attempt = @ + 1,
                     !.pc = "inflight"]]
    /\ dispatched' = dispatched + 1
    /\ UNCHANGED <<endpoints, requests, configs, logs, nextId, target, inbound, pending>>

\* forward_with_retries returned: db.commit() publishes the session's rows and
\* the task ends; a commit the store refuses is rolled back
BgCommit(t) ==
    /\ tasks[t].pc = "commit"
    /\ logs' = IF \A i \in 1..Len(tasks[t].rows) : ForeignKeysHold(tasks[t].rows[i])
               THEN logs \o tasks[t].rows
               ELSE logs
    /\ tasks' = Without(tasks, {t})
    /\ UNCHANGED <<endpoints, requests, configs, nextId, dispatched, target, inbound, pending>>

----------------------------------------------------------------------------
(* Delivery log and its summary: services/forwarding.py *)

\* response_time_ms is nullable: <<>> is NULL, <<n>> a time of n milliseconds
NoTime == <<>>

\* create_forwarding_log as the tests call it, with a response time
create_forwarding_log(cid, rid, success, ms) ==
    /\ logs' = Append(logs,
           [forwarding_config_id |-> cid, webhook_request_id |-> rid,
            status_code |-> IF success THEN 200 ELSE 500, success |-> success,
            error_message |-> IF success THEN "" ELSE "HTTP 500",
            attempt_number |-> 1, response_time_ms |-> ms])
    /\ UNCHANGED <<endpoints, requests, configs, tasks, nextId, dispatched, target, inbound, pending>>

\* the rows the three queries of get_forwarding_stats select
LogsOf(cid) == SelectSeq(logs, LAMBDA l : l.forwarding_config_id = cid)

RECURSIVE SumTimes(_)
SumTimes(rows) ==
    IF rows = <<>> THEN 0 ELSE Head(rows).response_time_ms[1] + SumTimes(Tail(rows))

\* round(num / den * 100, 1) in tenths of a percent: to the nearest tenth, a
\* tie going to the even one
RoundedRate(num, den) ==
    LET q == (num * 1000) \div den
        r == (num * 1000) % den
    IN  IF 2 * r < den THEN q
        ELSE IF 2 * r > den THEN q + 1
        ELSE IF q % 2 = 0 THEN q ELSE q + 1

\* an average taken over the rows that succeeded only
AvgResponseMs_SuccessesOnly(cid) ==
    LET timed == SelectSeq(LogsOf(cid),
                           LAMBDA l : l.response_time_ms # NoTime /\ l.success)
    IN  IF timed = <<>> THEN 0 ELSE SumTimes(timed) \div Len(timed)

\* int(avg_time) if avg_time else 0, avg_time = AVG(response_time_ms) over the
\* rows where it is not NULL
AvgResponseMs(cid) ==
    LET timed == SelectSeq(LogsOf(cid), LAMBDA l : l.response_time_ms # NoTime)
    IN  IF timed = <<>> THEN 0 ELSE SumTimes(timed) \div Len(timed)

\* success_rate is held in tenths of a percent: 667 is 66.7
get_forwarding_stats(cid) ==
    LET total     == Len(LogsOf(cid))
        successes == Len(SelectSeq(LogsOf(cid), LAMBDA l : l.success))
    IN  [total |-> total,
         successes |-> successes,
         failures |-> total - successes,
         success_rate |-> IF total > 0 THEN RoundedRate(successes, total) ELSE 0,
         avg_response_ms |-> AvgResponseMs(cid)]

----------------------------------------------------------------------------
(* Ingestion gateway: api/receiver.py, services/receiver.py *)

\* body_size = len(body.encode("utf-8")) of the body decoded with errors="replace":
\* every invalid byte became U+FFFD, three bytes in UTF-8
BodySize(b) == (b.len - b.invalid) + 3 * b.invalid

\* content_length and content_length.isdigit() and int(content_length) > max_body_size
PrecheckRejects(cl) ==
    cl # Absent /\ cl # <<>> /\ IsDigit(cl) /\ DigitsVal(cl) > max_body_size

\* a post-read check that already refuses a body of exactly the limit
BodyTooLarge_AtLimit(b) == b.len >= max_body_size

\* len(body_bytes) > settings.max_body_size
BodyTooLarge(b) == b.len > max_body_size

\* a handler that looks at the sizes before it looks at the activity flag
ReceiveOutcome_SizeFirst(eid, cl, b) ==
    IF get_endpoint_by_id(eid) = 0 THEN "not_found"
    ELSE IF PrecheckRejects(cl) THEN "too_large_header"
    ELSE IF BodyTooLarge(b) THEN "too_large_body"
    ELSE IF ~endpoints[eid].is_active THEN "inactive"
    ELSE "accepted"

\* a handler that lets the calls to a deactivated endpoint through
ReceiveOutcome_IgnoresInactive(eid, cl, b) ==
    IF get_endpoint_by_id(eid) = 0 THEN "not_found"
    ELSE IF PrecheckRejects(cl) THEN "too_large_header"
    ELSE IF BodyTooLarge(b) THEN "too_large_body"
    ELSE "accepted"

\* the terminal state of an inbound call, in the order the handler decides it
ReceiveOutcome(eid, cl, b) ==
    IF get_endpoint_by_id(eid) = 0 THEN "not_found"
    ELSE IF ~endpoints[eid].is_active THEN "inactive"
    ELSE IF PrecheckRejects(cl) THEN "too_large_header"
    ELSE IF BodyTooLarge(b) THEN "too_large_body"
    ELSE "accepted"

\* the endpoint's canned response
CannedResponse(e) ==
    Response(e.response_code, e.response_body, e.response_content_type)

\* a gateway that reports a delivery in trouble to the caller
AcceptedResponse_ReportsDelivery(eid) ==
    IF \E t \in DOMAIN tasks :
           /\ tasks[t].endpoint_id = eid
           /\ tasks[t].rows # <<>>
           /\ ~tasks[t].rows[Len(tasks[t].rows)].success
    THEN Response(502, "{\"error\": \"Forwarding failed\"}", "application/json")
    ELSE CannedResponse(endpoints[eid])

\* what the caller of an accepted inbound call is answered
AcceptedResponse(eid) == CannedResponse(endpoints[eid])

ReceiveResponse(eid, cl, b) ==
    LET out == ReceiveOutcome(eid, cl, b)
    IN  CASE out = "accepted"  -> AcceptedResponse(eid)
          [] out = "not_found" ->
                 Response(404, "{\"error\": \"Endpoint not found\"}", "application/json")
          [] out = "inactive"  ->
                 Response(410, "{\"error\": \"Endpoint is inactive\"}", "application/json")
          [] OTHER ->
                 Response(413, "{\"error\": \"Request body too large (max 1MB)\"}",
                          "application/json")

\* a counter that is bumped once by the store and once more by its caller
increment_request_count_Twice(e) == [e EXCEPT !.request_count = @ + 2]

\* endpoint.request_count = endpoint.request_count + 1
increment_request_count(e) == [e EXCEPT !.request_count = @ + 1]

\* the WebhookRequest row store_webhook_request adds
store_webhook_request(eid, b) == [endpoint_id |-> eid, body_size |-> BodySize(b)]

\* fwd_config and fwd_config.is_active: a background forward is queued
AutoForward(eid) ==
    LET c == get_forwarding_config(eid) IN c # 0 /\ configs[c].is_active

receive_webhook(eid, cl, b) ==
    LET rid == nextId.r
        tid == nextId.t
    IN  /\ IF ReceiveOutcome(eid, cl, b) = "accepted"
           THEN /\ requests' = With(requests, rid, store_webhook_request(eid, b))
                /\ endpoints' = [endpoints EXCEPT ![eid] = increment_request_count(@)]
                /\ IF AutoForward(eid)
                   THEN /\ tasks' = With(tasks, tid,
                                         NewTask(get_forwarding_config(eid), rid, eid))
                        /\ nextId' = [nextId EXCEPT !.r = rid + 1, !.t = tid + 1]
                   ELSE /\ tasks' = tasks
                        /\ nextId' = [nextId EXCEPT !.r = rid + 1]
           ELSE UNCHANGED <<endpoints, requests, tasks, nextId>>
        /\ UNCHANGED <<configs, logs, dispatched, target, inbound, pending>>

\* receive_webhook up to `await request.body()`: the endpoint row is loaded and
\* the checks on it and on the declared length are done; a rejected call is
\* answered at once
ReceiveRead(eid, cl, b) ==
    IF ReceiveOutcome(eid, cl, b) \in {"accepted", "too_large_body"}
    THEN /\ inbound' = With(inbound, nextId.h,
                            [endpoint_id |-> eid, body |-> b,
                             endpoint |-> endpoints[eid]])
         /\ nextId' = [nextId EXCEPT !.h = @ + 1]
         /\ UNCHANGED <<endpoints, requests, configs, logs, tasks, dispatched, target, pending>>
    ELSE UNCHANGED vars

\* a handler whose flush goes through although the endpoint's row is gone
ReceiveWrite_NoRollback(h) ==
    LET c   == inbound[h]
        eid == c.endpoint_id
        rid == nextId.r
    IN  /\ IF ~BodyTooLarge(c.body)
           THEN /\ requests' = With(requests, rid, store_webhook_request(eid, c.body))
                /\ endpoints' = [e \in DOMAIN endpoints |->
                                     IF e = eid
                                     THEN [endpoints[e] EXCEPT !.request_count =
                                              increment_request_count(c.endpoint).request_count]
                                     ELSE endpoints[e]]
                /\ tasks' = tasks
                /\ nextId' = [nextId EXCEPT !.r = rid + 1]
           ELSE UNCHANGED <<endpoints, requests, tasks, nextId>>
        /\ inbound' = Without(inbound, {h})
        /\ UNCHANGED <<configs, logs, dispatched, target, pending>>

\* receive_webhook from the body on: the size check, then the flush of the
\* INSERT and of the UPDATE of request_count computed from the row as it was
\* loaded, the forwarding lookup and the commit.  The UPDATE of a row that is
\* gone matches nothing: the flush raises and the session rolls back.
ReceiveWrite(h) ==
    LET c   == inbound[h]
        eid == c.endpoint_id
        rid == nextId.r
        tid == nextId.t
    IN  /\ IF ~BodyTooLarge(c.body) /\ eid \in DOMAIN endpoints
           THEN /\ requests' = With(requests, rid, store_webhook_request(eid, c.body))
                /\ endpoints' = [endpoints EXCEPT ![eid].request_count =
                                     increment_request_count(c.endpoint).request_count]
                /\ IF AutoForward(eid)
                   THEN /\ tasks' = With(tasks, tid,
                                         NewTask(get_forwarding_config(eid), rid, eid))
                        /\ nextId' = [nextId EXCEPT !.r = rid + 1, !.t = tid + 1]
                   ELSE /\ tasks' = tasks
                        /\ nextId' = [nextId EXCEPT !.r = rid + 1]
           ELSE UNCHANGED <<endpoints, requests, tasks, nextId>>
        /\ inbound' = Without(inbound, {h})
        /\ UNCHANGED <<configs, logs, dispatched, target, pending>>

----------------------------------------------------------------------------
(* Owner-facing forwarding operations: api/forwarding.py *)

HttpPrefix  == <<"h", "t", "t", "p", ":", "/", "/">>
HttpsPrefix == <<"h", "t", "t", "p", "s", ":", "/", "/">>

\* try: int(form.get(key, default)) except (ValueError, TypeError): default
IntOrDefault(v, default) ==
    IF v = Absent THEN default
    ELSE IF IsIntLiteral(v) THEN IntValue(v) ELSE default

\* a save that stores the submitted number as it is
ClampRetries_AsSubmitted(n) == n

ClampRetries(n) == Max(MinRetries, Min(n, MaxRetriesLimit))

ClampTimeout(n) == Max(MinTimeout, Min(n, MaxTimeout))

\* a check that lets every non-empty target through
UrlAllowed_AnyScheme(url) == Len(url) > 0

\* target_url.startswith(("http://", "https://"))
UrlAllowed(url) == StartsWith(url, HttpPrefix) \/ StartsWith(url, HttpsPrefix)

\* the validation of the submitted target_url: "", or why it is refused
UrlError(f) ==
    LET url == Strip(FormText(f.target_url))
    IN  IF url = <<>> THEN "Target+URL+is+required"
        ELSE IF ~UrlAllowed(url) THEN "URL+must+start+with+http://+or+https://"
        ELSE ""

\* a save that finds the endpoint by id alone
SaveOutcome_AnyOwner(u, eid, f) ==
    IF get_endpoint_by_id(eid) = 0 THEN "not_found"
    ELSE IF UrlError(f) # "" THEN "invalid"
    ELSE IF get_forwarding_config(eid) # 0 THEN "update"
    ELSE "create"

\* the branch save_forwarding takes
SaveOutcome(u, eid, f) ==
    IF get_endpoint(eid, u) = 0 THEN "not_found"
    ELSE IF UrlError(f) # "" THEN "invalid"
    ELSE IF get_forwarding_config(eid) # 0 THEN "update"
    ELSE "create"

\* the ForwardingConfig fields a valid form is stored as
ConfigFields(eid, f) ==
    [endpoint_id |-> eid,
     target_url  |-> Strip(Strip(FormText(f.target_url))),
     is_active   |-> (f.is_active = On),
     max_retries |-> ClampRetries(IntOrDefault(f.max_retries, DefaultRetries)),
     timeout_seconds |-> ClampTimeout(IntOrDefault(f.timeout_seconds, DefaultTimeout))]

\* the not-found page instead of the redirect
NotOwnedRedirect_NotFound == TemplateResponse("endpoints/not_found.html", 404)

\* the answer of save, delete and replay for an endpoint the user does not own
NotOwnedRedirect == RedirectResponse("/endpoints", 0, "")

SaveResponse(u, eid, f) ==
    LET out == SaveOutcome(u, eid, f)
    IN  CASE out = "not_found" -> NotOwnedRedirect
          [] out = "invalid"   -> RedirectResponse("/endpoints/{id}", eid, UrlError(f))
          [] OTHER             -> RedirectResponse("/endpoints/{id}", eid, "")

save_forwarding(u, eid, f) ==
    LET out == SaveOutcome(u, eid, f)
        cid == nextId.c
    IN  /\ CASE out = "update" ->
                   /\ configs' = [configs EXCEPT ![get_forwarding_config(eid)] =
                                      ConfigFields(eid, f)]
                   /\ nextId' = nextId
             [] out = "create" ->
                   /\ configs' = With(configs, cid, ConfigFields(eid, f))
                   /\ nextId' = [nextId EXCEPT !.c = cid + 1]
             [] OTHER -> UNCHANGED <<configs, nextId>>
        /\ UNCHANGED <<endpoints, requests, logs, tasks, dispatched, target, inbound, pending>>

\* save_forwarding up to the lookup of the config: owner check, parsing,
\* validation and get_forwarding_config are done; a refused save is answered
SaveRead(u, eid, f) ==
    IF SaveOutcome(u, eid, f) \in {"update", "create"}
    THEN /\ pending' = With(pending, nextId.h,
                            [op |-> "save", endpoint_id |-> eid,
                             config |-> get_forwarding_config(eid),
                             fields |-> ConfigFields(eid, f)])
         /\ nextId' = [nextId EXCEPT !.h = @ + 1]
         /\ UNCHANGED <<endpoints, requests, configs, logs, tasks, dispatched,
                        target, inbound>>
    ELSE UNCHANGED vars

\* a table without the unique constraint on endpoint_id
SaveFails_NoUnique(k) ==
    IF pending[k].config # 0 /\ pending[k].config \notin DOMAIN configs
    THEN "stale" ELSE ""

\* why the flush of a pending save fails, or "": the UPDATE of a row that is
\* gone matches nothing; the INSERT of a second row for the endpoint violates
\* the unique constraint on forwarding_configs.endpoint_id
SaveFails(k) ==
    LET c == pending[k]
    IN  IF c.config # 0
        THEN IF c.config \in DOMAIN configs THEN "" ELSE "stale"
        ELSE IF get_forwarding_config(c.endpoint_id) # 0 THEN "unique" ELSE ""

\* save_forwarding from update_forwarding_config / create_forwarding_config on:
\* the flush and the commit, or the rollback when the flush fails
SaveWrite(k) ==
    LET c   == pending[k]
        cid == nextId.c
    IN  /\ c.op = "save"
        /\ IF SaveFails(k) # ""
           THEN UNCHANGED <<configs, nextId>>
           ELSE IF c.config # 0
                THEN /\ configs' = [configs EXCEPT ![c.config] = c.fields]
                     /\ nextId' = nextId
                ELSE /\ configs' = With(configs, cid, c.fields)
                     /\ nextId' = [nextId EXCEPT !.c = cid + 1]
        /\ pending' = Without(pending, {k})
        /\ UNCHANGED <<endpoints, requests, logs, tasks, dispatched, target, inbound>>

RemoveForwardingResponse(u, eid) ==
    IF get_endpoint(eid, u) = 0
    THEN NotOwnedRedirect
    ELSE RedirectResponse("/endpoints/{id}", eid, "")

remove_forwarding(u, eid) ==
    LET c == get_forwarding_config(eid)
    IN  /\ IF get_endpoint(eid, u) = 0 \/ c = 0
           THEN UNCHANGED <<configs, logs>>
           ELSE /\ configs' = Without(configs, {c})
                /\ logs' = LogsWithout({c}, {})
        /\ UNCHANGED <<endpoints, requests, tasks, nextId, dispatched, target, inbound, pending>>

\* GET /endpoints/{id}/forwarding/logs
LogsPageResponse(u, eid) ==
    IF get_endpoint(eid, u) = 0
    THEN TemplateResponse("endpoints/not_found.html", 404)
    ELSE IF get_forwarding_config(eid) = 0
    THEN RedirectResponse("/endpoints/{id}", eid, "")
    ELSE TemplateResponse("forwarding/logs.html", 200)

forwarding_logs_page(u, eid) == UNCHANGED vars

\* the branch replay_webhook takes
ReplayOutcome(u, eid, rid) ==
    LET c == get_forwarding_config(eid)
    IN  IF get_endpoint(eid, u) = 0 THEN "not_found"
        ELSE IF c = 0 \/ ~configs[c].is_active THEN "no_forwarding"
        ELSE IF get_webhook_request(rid, eid) = 0 THEN "no_request"
        ELSE "replay"

ReplayResponse(u, eid, rid) ==
    LET out == ReplayOutcome(u, eid, rid)
    IN  CASE out = "replay"    ->
                 RedirectResponse("/endpoints/{id}/forwarding/logs", eid, "")
          [] out = "not_found" -> NotOwnedRedirect
          [] out = "no_forwarding" ->
                 RedirectResponse("/endpoints/{id}", eid,
                                  "Forwarding+not+configured+or+inactive")
          [] OTHER ->
                 RedirectResponse("/endpoints/{id}", eid, "Request+not+found")

\* a replay that numbers its attempt after the rows the request already has
replay_webhook_CountsOn(u, eid, rid) ==
    LET c == get_forwarding_config(eid)
        prior == Cardinality({i \in 1..Len(logs) : logs[i].webhook_request_id = rid})
    IN  /\ IF ReplayOutcome(u, eid, rid) = "replay"
           THEN /\ \E o \in target :
                       logs' = Append(logs, forward_webhook(c, rid,
                                              configs[c].timeout_seconds, prior + 1, o))
                /\ dispatched' = dispatched + 1
                /\ nextId' = [nextId EXCEPT !.p = @ + 1]
           ELSE UNCHANGED <<logs, dispatched, nextId>>
        /\ UNCHANGED <<endpoints, requests, configs, tasks, target, inbound, pending>>

\* the target's answer arrives inside the handler: one attempt, numbered 1
replay_webhook(u, eid, rid) ==
    LET c == get_forwarding_config(eid)
    IN  /\ IF ReplayOutcome(u, eid, rid) = "replay"
           THEN /\ \E o \in target :
                       logs' = Append(logs, forward_webhook(c, rid,
                                              configs[c].timeout_seconds, 1, o))
                /\ dispatched' = dispatched + 1
                /\ nextId' = [nextId EXCEPT !.p = @ + 1]
           ELSE UNCHANGED <<logs, dispatched, nextId>>
        /\ UNCHANGED <<endpoints, requests, configs, tasks, target, inbound, pending>>

----------------------------------------------------------------------------
(* Inputs *)

EForm(name, active, code, body, ctype) ==
    [name |-> name, is_active |-> active, response_code |-> code,
     response_body |-> body, response_content_type |-> ctype]

EndpointForms ==
    { EForm(<<"a">>, On, Absent, AbsentStr, AbsentStr),
      EForm(<<" ", "a", " ">>, Absent, DecStr(404), "pong", "text/plain"),
      EForm(<<" ", " ">>, On, DecStr(201), "pong", "text/plain"),
      EForm(<<"a">>, On, DecStr(600), "pong", "text/plain"),
      EForm(<<"a">>, On, <<"a", "b", "c">>, "pong", "text/plain") }

\* names and response codes at the edges of the validation of api/endpoints.py
BoundaryForms ==
    { EForm(<<"a">>, On, Absent, "pong", "text/plain"),
      EForm(<<" ", "a", " ">>, Absent, DecStr(100), "pong", "text/plain"),
      EForm(<<"b">>, On, DecStr(599), "pong", "text/plain"),
      EForm(<<"b">>, Absent, DecStr(100), "pong", "text/plain"),
      EForm(<<" ", " ">>, On, DecStr(100), "pong", "text/plain"),
      EForm(<<>>, On, Absent, "pong", "text/plain"),
      EForm(Absent, On, DecStr(599), "pong", "text/plain"),
      EForm(<<"a">>, On, DecStr(99), "pong", "text/plain"),
      EForm(<<"a">>, On, DecStr(600), "pong", "text/plain"),
      EForm(<<" ", " ">>, On, DecStr(600), "pong", "text/plain"),
      EForm(<<"a">>, On, <<"a", "b", "c">>, "pong", "text/plain"),
      EForm(<<"a">>, On, <<>>, "pong", "text/plain"),
      EForm(<<" ", " ">>, On, <<"a", "b", "c">>, "pong", "text/plain") }

FForm(url, active, retries, timeout) ==
    [target_url |-> url, is_active |-> active,
     max_retries |-> retries, timeout_seconds |-> timeout]

UrlA == HttpPrefix \o <<"a">>
UrlB == <<" ">> \o HttpsPrefix \o <<"b">> \o <<" ">>

ForwardingForms ==
    { FForm(UrlA, On, DecStr(2), DecStr(30)),
      FForm(UrlB, Absent, DecStr(0), DecStr(3)),
      FForm(Absent, On, DecStr(7), DecStr(60)),
      FForm(<<" ", " ">>, On, DecStr(7), DecStr(60)),
      FForm(<<"f", "t", "p", ":", "/", "/", "c">>, On, DecStr(7), DecStr(60)),
      FForm(<<"H", "T", "T", "P", ":", "/", "/", "a">>, Absent, DecStr(7), DecStr(60)) }

\* what max_retries and timeout_seconds may be submitted as
NumberTexts ==
    { <<Absent, Absent>>,
      <<<<"a", "b", "c">>, <<"x", "y", "z">>>>,
      <<<<>>, <<"5", ".", "5">>>>,
      <<DecStr(0), DecStr(4)>>,
      <<DecStr(1), DecStr(5)>>,
      <<DecStr(10), DecStr(120)>>,
      <<DecStr(11), DecStr(121)>>,
      <<<<"-", "3">>, <<"-", "1">>>>,
      <<<<" ", "7", " ">>, DecStr(60)>> }

SaveForms ==
    { FForm(UrlA, On, n[1], n[2]) : n \in NumberTexts }
    \cup { FForm(UrlB, Absent, DecStr(999), <<"+", "9">>),
           FForm(<<"f", "t", "p", ":", "/", "/", "c">>, On, DecStr(3), DecStr(60)) }

Inbound(cl, len, invalid) ==
    [content_length |-> cl, body |-> [len |-> len, invalid |-> invalid]]

InboundCalls ==
    { Inbound(Absent, max_body_size - 2, 1),
      Inbound(DecStr(max_body_size), max_body_size, 0),
      Inbound(DecStr(max_body_size + 1), max_body_size + 1, 0),
      Inbound(Absent, max_body_size + 1, 0),
      Inbound(<<"a", "b", "c">>, max_body_size + 1, 0),
      Inbound(DecStr(2), max_body_size + 1, 0),
      Inbound(DecStr(max_body_size + 1), 2, 0) }

EndpointIdsTried == 1..MaxEndpoints

RequestIdsTried == 1..MaxIngest

\* what the target can do with one request: answers around the edges of 2xx,
\* a timeout, a refused connection, another transport error
HttpResponse(n) == [kind |-> "response", status |-> n, msg |-> ""]

ForwardOutcomes ==
    { HttpResponse(n) : n \in {199, 200, 204, 299, 300, 404, 500} }
        \cup {TimedOut, Refused, OtherError}

AttemptsTried == {1, 2, MaxRetriesLimit}

----------------------------------------------------------------------------
(* The system *)

Init ==
    /\ endpoints = <<>>
    /\ requests = <<>>
    /\ configs = <<>>
    /\ logs = <<>>
    /\ tasks = <<>>
    /\ nextId = [e |-> 1, r |-> 1, c |-> 1, t |-> 1, p |-> 1, h |-> 1]
    /\ dispatched = 0
    /\ target = {HttpOk, HttpFail, TimedOut}
    /\ inbound = <<>>
    /\ pending = <<>>

\* Fresh ids run out at the bounds of the model: the guards on nextId.

EndpointOps ==
    \/ \E u \in Users, f \in EndpointForms :
           nextId.e <= MaxEndpoints /\ endpoint_create(u, f)
    \/ \E u \in Users, eid \in EndpointIdsTried : endpoint_detail(u, eid)
    \/ \E u \in Users, eid \in EndpointIdsTried, f \in EndpointForms :
           endpoint_update(u, eid, f)
    \/ \E u \in Users, eid \in EndpointIdsTried : endpoint_remove(u, eid)

Ingestion(maxRequests) ==
    \E eid \in EndpointIdsTried, i \in InboundCalls :
        nextId.r <= maxRequests /\ receive_webhook(eid, i.content_length, i.body)

ForwardingConfigOps ==
    \/ \E u \in Users, eid \in EndpointIdsTried, f \in ForwardingForms :
           (nextId.c <= MaxConfigs \/ get_forwarding_config(eid) # 0)
           /\ save_forwarding(u, eid, f)
    \/ \E u \in Users, eid \in EndpointIdsTried : remove_forwarding(u, eid)
    \/ \E u \in Users, eid \in EndpointIdsTried : forwarding_logs_page(u, eid)

Replay ==
    \E u \in Users, eid \in EndpointIdsTried, rid \in RequestIdsTried :
        nextId.p <= MaxReplays /\ replay_webhook(u, eid, rid)

Background ==
    \/ \E t \in DOMAIN tasks : BgStart(t)
    \/ \E t \in DOMAIN tasks, o \in TargetOutcomes : BgComplete(t, o)
    \/ \E t \in DOMAIN tasks : BgSleep(t)
    \/ \E t \in DOMAIN tasks : BgCommit(t)

Next ==
    \/ EndpointOps
    \/ Ingestion(MaxRequests)
    \/ ForwardingConfigOps
    \/ Replay
    \/ Background

Spec == Init /\ [][Next]_vars

----------------------------------------------------------------------------
(* Ingestion and configuration alone: queued forwarding tasks have not run *)

OverlappingIngestion ==
    \/ \E eid \in EndpointIdsTried, i \in InboundCalls :
           nextId.h <= MaxIngest /\ ReceiveRead(eid, i.content_length, i.body)
    \/ \E h \in DOMAIN inbound : ReceiveWrite(h)

NextIngest ==
    \/ EndpointOps
    \/ OverlappingIngestion
    \/ ForwardingConfigOps

SpecIngest == Init /\ [][NextIngest]_vars

----------------------------------------------------------------------------
(* Endpoint management alone: two owners create, edit and delete endpoints  *)
(* with names and response codes at the edges of the validation             *)

NextEndpoints ==
    \/ \E u \in Users, f \in BoundaryForms :
           nextId.e <= MaxEndpoints /\ endpoint_create(u, f)
    \/ \E u \in Users, eid \in EndpointIdsTried, f \in BoundaryForms :
           endpoint_update(u, eid, f)
    \/ \E u \in Users, eid \in EndpointIdsTried : endpoint_remove(u, eid)

SpecEndpoints == Init /\ [][NextEndpoints]_vars

----------------------------------------------------------------------------
(* forward_webhook alone: single calls on a stored config and request, the  *)
(* target doing anything it can                                             *)

InitForward ==
    /\ endpoints = <<increment_request_count(
                        NewEndpoint("u1", <<"a">>, 200, "{\"ok\": true}",
                                    "application/json"))>>
    /\ requests = <<store_webhook_request(1, [len |-> 2, invalid |-> 0])>>
    /\ \E t \in {MinTimeout, DefaultTimeout, MaxTimeout} :
           configs = <<[ConfigFields(1, FForm(UrlA, On, Absent, Absent))
                            EXCEPT !.timeout_seconds = t]>>
    /\ logs = <<>>
    /\ tasks = <<>>
    /\ nextId = [e |-> 2, r |-> 2, c |-> 2, t |-> 1, p |-> 1, h |-> 1]
    /\ dispatched = 0
    /\ target = ForwardOutcomes
    /\ inbound = <<>>
    /\ pending = <<>>

NextForward ==
    \E a \in AttemptsTried, o \in ForwardOutcomes :
        dispatched < MaxForwardCalls /\ ForwardOnce(a, o)

SpecForward == InitForward /\ [][NextForward]_vars

----------------------------------------------------------------------------
(* The summary alone: rows of any outcome and response time are logged for  *)
(* the configs of two endpoints                                             *)

ResponseTimes == {NoTime, <<0>>, <<50>>, <<100>>, <<150>>}

InitStats ==
    /\ endpoints = <<NewEndpoint("u1", <<"a">>, 200, "{\"ok\": true}", "application/json"),
                     NewEndpoint("u2", <<"b">>, 200, "{\"ok\": true}", "application/json")>>
    /\ requests = <<store_webhook_request(1, [len |-> 2, invalid |-> 0]),
                    store_webhook_request(2, [len |-> 2, invalid |-> 0])>>
    /\ configs = <<ConfigFields(1, FForm(UrlA, On, Absent, Absent)),
                   ConfigFields(2, FForm(UrlA, On, Absent, Absent))>>
    /\ logs = <<>>
    /\ tasks = <<>>
    /\ nextId = [e |-> 3, r |-> 3, c |-> 3, t |-> 1, p |-> 1, h |-> 1]
    /\ dispatched = 0
    /\ target = {HttpOk}
    /\ inbound = <<>>
    /\ pending = <<>>

NextStats ==
    \E cid \in DOMAIN configs, success \in BOOLEAN, ms \in ResponseTimes :
        Len(logs) < MaxLogRows /\ create_forwarding_log(cid, cid, success, ms)

SpecStats == InitStats /\ [][NextStats]_vars

----------------------------------------------------------------------------
(* Endpoint creation alone: the creates of two users overlap between the    *)
(* plan check and the insert                                                *)

NextCreate ==
    \/ \E u \in Users, f \in BoundaryForms :
           nextId.h <= MaxCreates /\ CreateRead(u, f)
    \/ \E k \in DOMAIN pending : CreateWrite(k)

SpecCreate == Init /\ [][NextCreate]_vars

----------------------------------------------------------------------------
(* Deliveries side by side: two requests of one endpoint are forwarded by   *)
(* two detached tasks over the same config while the owner replays          *)

InitDeliver ==
    /\ endpoints = <<increment_request_count(increment_request_count(
                        NewEndpoint("u1", <<"a">>, 200, "{\"ok\": true}",
                                    "application/json")))>>
    /\ requests = <<store_webhook_request(1, [len |-> 2, invalid |-> 0]),
                    store_webhook_request(1, [len |-> 2, invalid |-> 0])>>
    /\ configs = <<[ConfigFields(1, FForm(UrlA, On, Absent, Absent))
                       EXCEPT !.max_retries = 3]>>
    /\ logs = <<>>
    /\ tasks = <<NewTask(1, 1, 1), NewTask(1, 2, 1)>>
    /\ nextId = [e |-> 2, r |-> 3, c |-> 2, t |-> 3, p |-> 1, h |-> 1]
    /\ dispatched = 0
    /\ target = {HttpOk, HttpFail}
    /\ inbound = <<>>
    /\ pending = <<>>

SpecDeliver == InitDeliver /\ [][Background \/ Replay]_vars

----------------------------------------------------------------------------
(* Everything at once around a stored request: an endpoint that forwards    *)
(* has accepted a call whose delivery is queued, and every operation of the *)
(* program follows                                                          *)

InitStore ==
    /\ endpoints = <<increment_request_count(
                        NewEndpoint("u1", <<"a">>, 200, "{\"ok\": true}",
                                    "application/json"))>>
    /\ requests = <<store_webhook_request(1, [len |-> 2, invalid |-> 0])>>
    /\ configs = <<ConfigFields(1, FForm(UrlA, On, DecStr(2), DecStr(30)))>>
    /\ logs = <<>>
    /\ tasks = <<NewTask(1, 1, 1)>>
    /\ nextId = [e |-> 2, r |-> 2, c |-> 2, t |-> 2, p |-> 1, h |-> 1]
    /\ dispatched = 0
    /\ target = {HttpOk, HttpFail}
    /\ inbound = <<>>
    /\ pending = <<>>

NextStore ==
    \/ EndpointOps
    \/ Ingestion(MaxIngest)
    \/ ForwardingConfigOps
    \/ Replay
    \/ Background

SpecStore == InitStore /\ [][NextStore]_vars

----------------------------------------------------------------------------
(* Deliveries to their end: an endpoint whose config nobody touches takes   *)
(* inbound calls, and the event loop goes on running the detached tasks     *)

LiveTargets == { {HttpOk, HttpFail}, {TimedOut} }

InitLive ==
    /\ endpoints = <<NewEndpoint("u1", <<"a">>, 200, "{\"ok\": true}",
                                  "application/json")>>
    /\ requests = <<>>
    /\ \E m \in MinRetries..MaxRetriesLimit, a \in {On, Absent} :
           configs = <<[ConfigFields(1, FForm(UrlA, a, Absent, Absent))
                            EXCEPT !.max_retries = m]>>
    /\ logs = <<>>
    /\ tasks = <<>>
    /\ nextId = [e |-> 2, r |-> 1, c |-> 2, t |-> 1, p |-> 1, h |-> 1]
    /\ dispatched = 0
    /\ target \in LiveTargets
    /\ inbound = <<>>
    /\ pending = <<>>

NextLive == Ingestion(MaxIngest) \/ Background

\* a task handed to add_task is run by the event loop after the response: the
\* call to the target ends at the latest with its timeout, asyncio.sleep
\* returns, and the commit follows, so a task that can step does step
TaskScheduling == WF_vars(Background)

SpecLive == InitLive /\ [][NextLive]_vars /\ TaskScheduling

----------------------------------------------------------------------------
(* The gateway and the switch: the owner turns the endpoint off and on and  *)
(* deletes it while calls arrive and the queued delivery runs               *)

GateForms ==
    { EForm(<<"a">>, On, Absent, AbsentStr, AbsentStr),
      EForm(<<"a">>, Absent, Absent, AbsentStr, AbsentStr) }

NextGate ==
    \/ \E u \in Users, eid \in EndpointIdsTried, f \in GateForms :
           endpoint_update(u, eid, f)
    \/ \E u \in Users, eid \in EndpointIdsTried : endpoint_remove(u, eid)
    \/ Ingestion(MaxIngest)
    \/ Background

SpecGate == InitStore /\ [][NextGate]_vars

----------------------------------------------------------------------------
(* Endpoint names at the column's length: owners create, rename and delete  *)
(* endpoints with names of 1, 255 and 256 characters, turning them off too  *)

NameOfLength(n) == [i \in 1..n |-> "x"]

NameForms ==
    { EForm(NameOfLength(1), On, Absent, AbsentStr, AbsentStr),
      EForm(NameOfLength(NameLimit), On, Absent, AbsentStr, AbsentStr),
      EForm(NameOfLength(NameLimit + 1), On, Absent, AbsentStr, AbsentStr),
      EForm(NameOfLength(NameLimit + 1), Absent, DecStr(204), AbsentStr, AbsentStr) }

NextNames ==
    \/ \E u \in Users, f \in NameForms :
           nextId.e <= MaxEndpoints /\ endpoint_create(u, f)
    \/ \E u \in Users, eid \in EndpointIdsTried, f \in NameForms :
           endpoint_update(u, eid, f)
    \/ \E u \in Users, eid \in EndpointIdsTried : endpoint_remove(u, eid)

SpecNames == Init /\ [][NextNames]_vars

----------------------------------------------------------------------------
(* The retry engine alone: one queued background forward of one stored      *)
(* request, for every max_retries a saved config can hold                   *)

RetryTargets == { {HttpOk, HttpFail, TimedOut, Refused}, {HttpOk, OtherError} }

InitRetry ==
    /\ endpoints = <<increment_request_count(
                        NewEndpoint("u1", <<"a">>, 200, "{\"ok\": true}",
                                    "application/json"))>>
    /\ requests = <<store_webhook_request(1, [len |-> 2, invalid |-> 0])>>
    /\ \E m \in MinRetries..MaxRetriesLimit :
           configs = <<[ConfigFields(1, FForm(UrlA, On, Absent, Absent))
                            EXCEPT !.max_retries = m]>>
    /\ logs = <<>>
    /\ tasks = <<NewTask(1, 1, 1)>>
    /\ nextId = [e |-> 2, r |-> 2, c |-> 2, t |-> 2, p |-> 1, h |-> 1]
    /\ dispatched = 0
    /\ target \in RetryTargets
    /\ inbound = <<>>
    /\ pending = <<>>

SpecRetry == InitRetry /\ [][Background]_vars

----------------------------------------------------------------------------
(* Forwarding configuration alone: two owners save and delete the configs  *)
(* of their endpoints, the saves overlapping                                *)

InitSave ==
    /\ endpoints = <<NewEndpoint("u1", <<"a">>, 200, "{\"ok\": true}", "application/json"),
                     NewEndpoint("u2", <<"b">>, 200, "{\"ok\": true}", "application/json")>>
    /\ requests = <<>>
    /\ configs = <<>>
    /\ logs = <<>>
    /\ tasks = <<>>
    /\ nextId = [e |-> 3, r |-> 1, c |-> 1, t |-> 1, p |-> 1, h |-> 1]
    /\ dispatched = 0
    /\ target = {HttpOk}
    /\ inbound = <<>>
    /\ pending = <<>>

NextSave ==
    \/ \E u \in Users, eid \in EndpointIdsTried, f \in SaveForms :
           nextId.h <= MaxSaves /\ SaveRead(u, eid, f)
    \/ \E k \in DOMAIN pending : SaveWrite(k)
    \/ \E u \in Users, eid \in EndpointIdsTried : remove_forwarding(u, eid)

SpecSave == InitSave /\ [][NextSave]_vars

----------------------------------------------------------------------------
(* Retry sequencing                                                        *)

\* the tasks whose forward_with_retries has returned
Returned == { t \in DOMAIN tasks : tasks[t].pc = "commit" }

Numbered(rows) == \A n \in 1..Len(rows) : rows[n].attempt_number = n

\* C1: when attempts 1..k-1 fail and attempt k succeeds (1 <= k <= max_retries,
\* max_retries in 1..10), forward_with_retries has written exactly k rows
\* numbered 1..k of which only the last is a success, has paused exactly k-1
\* times with the n-th pause min(2^(n-1), 30) seconds, has sent nothing after
\* the success, and returns the success row.
C1_SuccessOnAttemptK ==
    \A t \in Returned :
        LET k == tasks[t] IN
        k.ret.success =>
            /\ Len(k.rows) \in 1..k.max_retries
            /\ k.max_retries \in MinRetries..MaxRetriesLimit
            /\ Numbered(k.rows)
            /\ \A n \in 1..Len(k.rows) : k.rows[n].success <=> n = Len(k.rows)
            /\ Len(k.pauses) = Len(k.rows) - 1
            /\ \A n \in 1..Len(k.pauses) :
                   k.pauses[n] = IF 2^(n - 1) < 30 THEN 2^(n - 1) ELSE 30
            /\ dispatched = Len(k.rows)
            /\ k.ret = k.rows[Len(k.rows)]

\* success on attempt 7 of 10: six pauses, the sixth one capped
C1_Witness ==
    \E t \in Returned :
        /\ tasks[t].ret.success
        /\ tasks[t].max_retries = 10
        /\ Len(tasks[t].rows) = 7
        /\ tasks[t].pauses = <<1, 2, 4, 8, 16, 30>>

\* C2: when every attempt fails (non-2xx response, timeout, connection failure,
\* in any mix) forward_with_retries ends after exactly max_retries attempts:
\* max_retries failure rows numbered 1..max_retries, max_retries-1 pauses (none
\* after the last attempt), and the row of attempt max_retries is returned; a
\* timeout on one attempt does not end the sequence.
C2_AllAttemptsFail ==
    \A t \in Returned :
        LET k == tasks[t] IN
        ~k.ret.success =>
            /\ Len(k.rows) = k.max_retries
            /\ Numbered(k.rows)
            /\ \A n \in 1..Len(k.rows) : ~k.rows[n].success
            /\ Len(k.pauses) = k.max_retries - 1
            /\ dispatched = k.max_retries
            /\ k.ret = k.rows[k.max_retries]

\* three attempts: a timeout, then HTTP 500, then a refused connection
C2_Witness ==
    \E t \in Returned :
        LET k == tasks[t] IN
        /\ ~k.ret.success
        /\ k.max_retries = 3
        /\ Len(k.rows) = 3
        /\ k.rows[1].error_message = "Timeout after 30s"
        /\ k.rows[2].error_message = "HTTP 500"
        /\ k.rows[3].error_message = "Connection refused"
        /\ Len(k.pauses) = 2

----------------------------------------------------------------------------
(* Request counting                                                        *)

Stored(eid) == Cardinality(RequestsOf(eid))

\* an inbound call that passed every check and whose flush found the endpoint
Commits(h) ==
    /\ ~BodyTooLarge(inbound[h].body)
    /\ inbound[h].endpoint_id \in DOMAIN endpoints

\* C3 as stated: every accepted inbound call adds 1 to request_count, so the
\* endpoint's request_count equals the number of WebhookRequests stored for it.
C3_CountEqualsStored ==
    \A e \in DOMAIN endpoints : endpoints[e].request_count = Stored(e)

C3_NeverMoreThanStored ==
    \A e \in DOMAIN endpoints : endpoints[e].request_count <= Stored(e)

C3_OnePerCall ==
    \A h \in DOMAIN inbound, eid \in DOMAIN endpoints :
        \A seen \in {inbound[h].endpoint.request_count} :
            ReceiveWrite(h) /\ Commits(h) /\ inbound[h].endpoint_id = eid =>
                /\ Stored(eid)' = Stored(eid) + 1
                /\ \A e \in DOMAIN endpoints \ {eid} :
                       /\ Stored(e)' = Stored(e)
                       /\ endpoints'[e] = endpoints[e]
                /\ endpoints'[eid].request_count = seen + 1
                /\ seen = endpoints[eid].request_count =>
                       /\ endpoints'[eid].request_count =
                              endpoints[eid].request_count + 1
                       /\ C3_CountEqualsStored => C3_CountEqualsStored'

\* C3 (amended): every accepted inbound call that commits persists exactly one
\* WebhookRequest for its endpoint and sets request_count to the value it
\* loaded plus 1.  That is an increase by exactly 1, and keeps request_count
\* equal to the number of stored requests, when no other accepted call to the
\* endpoint committed since the load; when calls overlap an increment is lost
\* and request_count stays below the number of stored requests, never above.
C3_CountsAcceptedCalls == []C3_NeverMoreThanStored /\ [][C3_OnePerCall]_vars

\* two overlapping calls were both stored and the counter says 1
C3_Witness ==
    \E e \in DOMAIN endpoints :
        /\ Stored(e) = 2
        /\ endpoints[e].request_count = 1
        /\ inbound = <<>>

----------------------------------------------------------------------------
(* The ingestion gateway's answer                                          *)

\* an inbound call that declares n bytes and carries len
Declared(n, len) == Inbound(DecStr(n), len, 0)

\* inbound calls within the limit, whatever they declare short of exceeding it
WithinLimit ==
    { Inbound(Absent, max_body_size - 2, 1),
      Declared(max_body_size, max_body_size) }

\* the delivery for endpoint eid is between attempts after a timeout
Retrying(eid) ==
    \E t \in DOMAIN tasks :
        /\ tasks[t].endpoint_id = eid
        /\ tasks[t].pc = "sleep"
        /\ tasks[t].rows[Len(tasks[t].rows)].status_code = None

\* C4: an accepted inbound call is answered with exactly the endpoint's stored
\* (response_code, response_body, response_content_type), whatever the state of
\* forwarding: absent, inactive, succeeded, failed, timed out or still retrying.
C4_CannedWhateverForwardingDoes ==
    \A eid \in DOMAIN endpoints, i \in WithinLimit :
        endpoints[eid].is_active =>
            ReceiveResponse(eid, i.content_length, i.body) =
                [status |-> endpoints[eid].response_code,
                 body   |-> endpoints[eid].response_body,
                 ctype  |-> endpoints[eid].response_content_type,
                 loc    |-> NoLoc]

\* an endpoint answering 404 "pong" accepts calls while the delivery of its
\* stored request is between attempts after a timeout
C4_Witness ==
    \E eid \in DOMAIN endpoints :
        /\ endpoints[eid].is_active
        /\ endpoints[eid].response_code = 404
        /\ endpoints[eid].request_count = 1
        /\ Retrying(eid)
        /\ ReceiveOutcome(eid, Absent, [len |-> max_body_size, invalid |-> 0])
               = "accepted"

\* the status and body an inbound call is answered with, decided in the stated
\* order; a declared length is the decimal numeral of a number
Decided(eid, i) ==
    IF eid \notin DOMAIN endpoints THEN <<404, "{\"error\": \"Endpoint not found\"}">>
    ELSE IF ~endpoints[eid].is_active
         THEN <<410, "{\"error\": \"Endpoint is inactive\"}">>
    ELSE IF \E n \in {2, max_body_size, max_body_size + 1} :
                i.content_length = DecStr(n) /\ n > max_body_size
         THEN <<413, "{\"error\": \"Request body too large (max 1MB)\"}">>
    ELSE IF i.body.len > max_body_size
         THEN <<413, "{\"error\": \"Request body too large (max 1MB)\"}">>
    ELSE <<endpoints[eid].response_code, endpoints[eid].response_body>>

\* C5: an inbound call is decided in this order: unknown endpoint id -> 404;
\* inactive endpoint -> 410; numeric declared content-length above
\* max_body_size -> 413; actual body above max_body_size -> 413; otherwise
\* accepted with the canned response.  So an oversized call gets 410 from an
\* inactive endpoint and 404 from an unknown one, and a declared length above
\* the limit is refused although the body is within it.
C5_DecisionOrder ==
    \A eid \in EndpointIdsTried, i \in InboundCalls :
        LET r == ReceiveResponse(eid, i.content_length, i.body)
        IN  /\ <<r.status, r.body>> = Decided(eid, i)
            /\ (ReceiveOutcome(eid, i.content_length, i.body) = "accepted")
                   <=> /\ eid \in DOMAIN endpoints
                       /\ endpoints[eid].is_active
                       /\ i \in WithinLimit

\* an endpoint that accepted a request and was then deactivated, and an id that
\* is unknown since its endpoint was deleted
C5_Witness ==
    /\ nextId.e = 3
    /\ \E a, b \in EndpointIdsTried :
           /\ a \in DOMAIN endpoints /\ ~endpoints[a].is_active
           /\ endpoints[a].request_count = 1
           /\ b \notin DOMAIN endpoints
           /\ ReceiveResponse(a, DecStr(max_body_size + 1),
                              [len |-> max_body_size + 1, invalid |-> 0]).status = 410
           /\ ReceiveResponse(b, DecStr(max_body_size + 1),
                              [len |-> max_body_size + 1, invalid |-> 0]).status = 404

\* C6: an existing active endpoint accepts a body of exactly max_body_size
\* bytes and refuses one of max_body_size+1 bytes with 413: at the header
\* pre-check when content-length declares it, at the post-read check when
\* content-length is absent, non-numeric or understated.
C6_BodySizeBoundary ==
    \A eid \in DOMAIN endpoints :
        endpoints[eid].is_active =>
            LET over  == [len |-> max_body_size + 1, invalid |-> 0]
                exact == [len |-> max_body_size, invalid |-> 0]
            IN  /\ ReceiveOutcome(eid, DecStr(max_body_size), exact) = "accepted"
                /\ ReceiveOutcome(eid, Absent, exact) = "accepted"
                /\ ReceiveOutcome(eid, DecStr(max_body_size + 1), over)
                       = "too_large_header"
                /\ \A cl \in {Absent, <<"a", "b", "c">>, DecStr(2)} :
                       ReceiveOutcome(eid, cl, over) = "too_large_body"
                /\ \A cl \in {Absent, <<"a", "b", "c">>, DecStr(2),
                              DecStr(max_body_size + 1)} :
                       ReceiveResponse(eid, cl, over).status = 413

\* a body of exactly the limit was stored; one byte more is refused after the
\* read
C6_Witness ==
    \E r \in DOMAIN requests :
        LET eid == requests[r].endpoint_id
        IN  /\ requests[r].body_size = max_body_size
            /\ endpoints[eid].is_active
            /\ endpoints[eid].request_count = 1
            /\ ReceiveOutcome(eid, DecStr(2),
                              [len |-> max_body_size + 1, invalid |-> 0])
                   = "too_large_body"

----------------------------------------------------------------------------
(* Tenant isolation                                                        *)

\* an id no endpoint ever has
NoSuchId == MaxEndpoints + 1

\* the users other than the owner of endpoint eid
Others(eid) == { u \in Users : u # endpoints[eid].user_id }

\* endpoint eid has a request, a forwarding config and a log row of its own
FullyEquipped(eid) ==
    /\ RequestsOf(eid) # {}
    /\ ConfigsOf(eid) # {}
    /\ \E n \in 1..Len(logs) : logs[n].forwarding_config_id \in ConfigsOf(eid)

C7_NotFoundForOthers ==
    \A eid \in DOMAIN endpoints : \A u \in Others(eid) :
        /\ get_endpoint(eid, u) = get_endpoint(NoSuchId, u)
        /\ DetailResponse(u, eid).status = 404
        /\ DetailResponse(u, eid) = DetailResponse(u, NoSuchId)
        /\ RemoveResponse(u, eid).status = 404
        /\ RemoveResponse(u, eid) = RemoveResponse(u, NoSuchId)
        /\ \A f \in EndpointForms :
               /\ UpdateResponse(u, eid, f).status = 404
               /\ UpdateResponse(u, eid, f) = UpdateResponse(u, NoSuchId, f)

C7_OthersChangeNothing ==
    \A eid \in DOMAIN endpoints : \A u \in Others(eid) :
        (\/ endpoint_detail(u, eid)
         \/ endpoint_remove(u, eid)
         \/ \E f \in EndpointForms : endpoint_update(u, eid, f))
            => UNCHANGED <<endpoints, requests, configs, logs, tasks>>

\* C7: for every endpoint E of user A and every other user B, get_endpoint(E, B)
\* is not-found exactly as for an id that does not exist, so B's detail, edit
\* and delete are answered 404 and leave E, its requests, its forwarding config
\* and its logs unchanged.
C7_TenantIsolation == []C7_NotFoundForOthers /\ [][C7_OthersChangeNothing]_vars

\* u1's endpoint with a request, a config and a log row; u2 is answered 404
C7_Witness ==
    \E eid \in DOMAIN endpoints :
        /\ endpoints[eid].user_id = "u1"
        /\ FullyEquipped(eid)
        /\ DetailResponse("u2", eid).status = 404
        /\ DetailResponse("u1", eid).status = 200

----------------------------------------------------------------------------
(* Forwarding operations on somebody else's endpoint                       *)

\* C8 as stated: save, delete, list logs and replay all answer 404 for an
\* endpoint of a different owner.
C8_AllAnswer404 ==
    \A eid \in DOMAIN endpoints : \A u \in Others(eid) :
        /\ LogsPageResponse(u, eid).status = 404
        /\ RemoveForwardingResponse(u, eid).status = 404
        /\ \A f \in ForwardingForms : SaveResponse(u, eid, f).status = 404
        /\ \A rid \in RequestIdsTried : ReplayResponse(u, eid, rid).status = 404

\* C8 (amended): for an endpoint of a different owner every forwarding
\* operation answers exactly as for an endpoint id that does not exist and
\* never with 403: list logs with the 404 not-found page; save, delete and
\* replay with a 302 redirect to /endpoints that carries no error.
C8_SameAsNonexistent ==
    \A eid \in DOMAIN endpoints : \A u \in Others(eid) :
        LET redirects ==
                {RemoveForwardingResponse(u, eid)}
                \cup {SaveResponse(u, eid, f) : f \in ForwardingForms}
                \cup {ReplayResponse(u, eid, rid) : rid \in RequestIdsTried}
        IN  /\ LogsPageResponse(u, eid) = LogsPageResponse(u, NoSuchId)
            /\ LogsPageResponse(u, eid).status = 404
            /\ RemoveForwardingResponse(u, eid) = RemoveForwardingResponse(u, NoSuchId)
            /\ \A f \in ForwardingForms :
                   SaveResponse(u, eid, f) = SaveResponse(u, NoSuchId, f)
            /\ \A rid \in RequestIdsTried :
                   ReplayResponse(u, eid, rid) = ReplayResponse(u, NoSuchId, rid)
            /\ \A r \in redirects :
                   r.status = 302 /\ r.loc = <<"/endpoints", 0, "">>

\* u1's endpoint is ready for a replay by u1; u2's replay is redirected away
C8_Witness ==
    \E eid \in DOMAIN endpoints, rid \in DOMAIN requests :
        /\ endpoints[eid].user_id = "u1"
        /\ ReplayOutcome("u1", eid, rid) = "replay"
        /\ ReplayResponse("u2", eid, rid).status = 302
        /\ LogsPageResponse("u1", eid).status = 200
        /\ LogsPageResponse("u2", eid).status = 404

\* C9: save-forwarding, delete-forwarding and replay issued by a user who does
\* not own endpoint E leave E's ForwardingConfig (presence, target_url, active
\* flag, max_retries, timeout_seconds) and the ForwardingLog rows unchanged and
\* dispatch no delivery.
C9_OthersLeaveForwardingAlone ==
    [][ \A eid \in DOMAIN endpoints : \A u \in Others(eid) :
            (\/ remove_forwarding(u, eid)
             \/ \E f \in ForwardingForms : save_forwarding(u, eid, f)
             \/ \E rid \in RequestIdsTried : replay_webhook(u, eid, rid))
                => UNCHANGED <<configs, logs, tasks, dispatched>> ]_vars

\* u1's endpoint has a config, a log row and a request that u1 could replay
\* and whose config u1 could overwrite; for u2 both are not found
C9_Witness ==
    \E eid \in DOMAIN endpoints, rid \in DOMAIN requests :
        /\ endpoints[eid].user_id = "u1"
        /\ FullyEquipped(eid)
        /\ ReplayOutcome("u1", eid, rid) = "replay"
        /\ ReplayOutcome("u2", eid, rid) = "not_found"
        /\ SaveOutcome("u1", eid, FForm(UrlB, Absent, DecStr(0), DecStr(3))) = "update"
        /\ SaveOutcome("u2", eid, FForm(UrlB, Absent, DecStr(0), DecStr(3))) = "not_found"

----------------------------------------------------------------------------
(* Validation of the forwarding target                                      *)

\* the submitted forms whose target_url is missing, blank, or of another scheme
InvalidUrlForms ==
    { f \in ForwardingForms :
        f.target_url \in { Absent, <<" ", " ">>,
                           <<"f", "t", "p", ":", "/", "/", "c">>,
                           <<"H", "T", "T", "P", ":", "/", "/", "a">> } }

C10_AnsweredWithFwdError ==
    \A eid \in DOMAIN endpoints, f \in InvalidUrlForms :
        LET r == SaveResponse(endpoints[eid].user_id, eid, f)
        IN  /\ r.status = 302
            /\ r.loc[1] = "/endpoints/{id}" /\ r.loc[2] = eid
            /\ r.loc[3] \in {"Target+URL+is+required",
                             "URL+must+start+with+http://+or+https://"}

C10_NothingSaved ==
    \A eid \in DOMAIN endpoints, u \in Users, f \in InvalidUrlForms :
        save_forwarding(u, eid, f) => UNCHANGED <<configs, nextId>>

\* C10: a save whose trimmed target_url is empty or does not start with
\* "http://" or "https://" is answered with a redirect carrying fwd_error, not
\* a server error, and creates or updates no ForwardingConfig row: an existing
\* config keeps its target_url, active flag, max_retries and timeout_seconds.
C10_InvalidTargetRejected ==
    []C10_AnsweredWithFwdError /\ [][C10_NothingSaved]_vars

\* the owner submits ftp://c for an endpoint whose config forwards to http://a
C10_Witness ==
    \E eid \in DOMAIN endpoints, c \in DOMAIN configs :
        /\ configs[c] = [endpoint_id |-> eid, target_url |-> UrlA,
                         is_active |-> TRUE, max_retries |-> 2,
                         timeout_seconds |-> 30]
        /\ SaveOutcome(endpoints[eid].user_id, eid,
                       FForm(<<"f", "t", "p", ":", "/", "/", "c">>, On,
                             DecStr(7), DecStr(60))) = "invalid"

----------------------------------------------------------------------------
(* Saving a forwarding config                                              *)

\* the decimal numerals submitted
Numerals == {0, 1, 3, 4, 5, 10, 11, 60, 120, 121, 999}

\* the submitted texts that are numbers, and the numbers they stand for
Numbers ==
    { <<DecStr(n), n>> : n \in Numerals }
    \cup { <<<<"-", "3">>, 0 - 3>>, <<<<"-", "1">>, 0 - 1>>,
           <<<<" ", "7", " ">>, 7>>, <<<<"+", "9">>, 9>> }

\* max(lo, min(v, hi)) of the number v submitted, or the default
StoredAs(text, lo, hi, default) ==
    IF \E m \in Numbers : m[1] = text
    THEN LET v == (CHOOSE m \in Numbers : m[1] = text)[2]
         IN  IF v < lo THEN lo ELSE IF v > hi THEN hi ELSE v
    ELSE default

\* the forms whose target_url is valid
ValidUrlForms == { f \in SaveForms : f.target_url \in {UrlA, UrlB} }

C11_EveryConfigInRange ==
    \A c \in DOMAIN configs :
        /\ configs[c].max_retries \in 1..10
        /\ configs[c].timeout_seconds \in 5..120

C11_NeverRejected ==
    \A eid \in DOMAIN endpoints, f \in ValidUrlForms :
        \A u \in {endpoints[eid].user_id} :
            /\ SaveOutcome(u, eid, f) \in {"update", "create"}
            /\ SaveResponse(u, eid, f) = RedirectResponse("/endpoints/{id}", eid, "")
            /\ ConfigFields(eid, f).max_retries = StoredAs(f.max_retries, 1, 10, 5)
            /\ ConfigFields(eid, f).timeout_seconds
                   = StoredAs(f.timeout_seconds, 5, 120, 30)

\* a save that commits leaves the endpoint's config with the fields it computed
C11_StoredAsComputed ==
    \A k \in DOMAIN pending : \A eid \in {pending[k].endpoint_id} :
        \A fields \in {pending[k].fields} :
            SaveWrite(k) /\ SaveFails(k) = "" =>
                /\ \E c \in DOMAIN configs' : configs'[c] = fields
                /\ \E f \in ValidUrlForms :
                       /\ fields.max_retries = StoredAs(f.max_retries, 1, 10, 5)
                       /\ fields.timeout_seconds
                              = StoredAs(f.timeout_seconds, 5, 120, 30)

\* C11: with a valid target_url a save is never refused because of max_retries
\* or timeout_seconds: a numeric value v is stored as max(1, min(v, 10)) and
\* max(5, min(v, 120)), a non-numeric value as the default (5 retries, 30
\* seconds); so every ForwardingConfig written by saves has max_retries in
\* [1,10] and timeout_seconds in [5,120].
C11_ClampedNotRejected ==
    /\ [](C11_EveryConfigInRange /\ C11_NeverRejected)
    /\ [][C11_StoredAsComputed]_vars

\* one config was stored from 11 and 121, the other from non-numeric values
C11_Witness ==
    \E a, b \in DOMAIN configs :
        /\ configs[a].max_retries = 10 /\ configs[a].timeout_seconds = 120
        /\ configs[b].max_retries = 5 /\ configs[b].timeout_seconds = 30

ConfigIdOf(eid) == get_forwarding_config(eid)

C12_AtMostOneConfig ==
    \A eid \in DOMAIN endpoints : Cardinality(ConfigsOf(eid)) <= 1

C12_UpdateInPlaceOrInsertOne ==
    \A k \in DOMAIN pending : \A eid \in {pending[k].endpoint_id} :
        \A found \in {pending[k].config} :
            SaveWrite(k) =>
                IF SaveFails(k) # "" THEN configs' = configs
                ELSE IF found # 0
                THEN /\ DOMAIN configs' = DOMAIN configs
                     /\ ConfigsOf(eid)' = {found}
                     /\ \A c \in DOMAIN configs \ {found} : configs'[c] = configs[c]
                ELSE /\ ConfigsOf(eid) = {}
                     /\ Cardinality(DOMAIN configs') = Cardinality(DOMAIN configs) + 1
                     /\ Cardinality(ConfigsOf(eid)') = 1
                     /\ \A c \in DOMAIN configs : configs'[c] = configs[c]

\* C12: in every reachable state each endpoint has at most one
\* ForwardingConfig, under any sequence or interleaving of saves and deletes:
\* a save on an endpoint that has a config updates that row in place (same
\* config id), a save on an endpoint without one inserts exactly one row.
C12_OneConfigPerEndpoint ==
    []C12_AtMostOneConfig /\ [][C12_UpdateInPlaceOrInsertOne]_vars

\* an endpoint got its config, lost it and got another one, while a save that
\* found no config is still about to insert
C12_Witness ==
    \E k \in DOMAIN pending :
        /\ pending[k].config = 0
        /\ ConfigIdOf(pending[k].endpoint_id) = 2
        /\ SaveFails(k) = "unique"

----------------------------------------------------------------------------
(* What a stored endpoint always satisfies                                  *)

BlankNames == { <<" ", " ">>, <<>>, Absent }

OutOfRangeCodes == { DecStr(99), DecStr(600) }

\* the forms create and edit must reject: the response code, when given, is
\* a number, and it is out of range or the name is blank
RejectedForms ==
    { f \in BoundaryForms :
        /\ f.response_code \in {Absent, DecStr(99), DecStr(100), DecStr(599), DecStr(600)}
        /\ f.name \in BlankNames \/ f.response_code \in OutOfRangeCodes }

C13_CodeAndNameValid ==
    \A e \in DOMAIN endpoints :
        /\ endpoints[e].response_code \in 100..599
        /\ endpoints[e].name # <<>>
        /\ endpoints[e].name = Strip(endpoints[e].name)

C13_AnsweredWith422 ==
    \A u \in Users, f \in RejectedForms :
        /\ CreateResponse(u, f).status = 422
        /\ \A eid \in DOMAIN endpoints :
               endpoints[eid].user_id = u => UpdateResponse(u, eid, f).status = 422

C13_RejectedChangesNothing ==
    \A u \in Users, f \in RejectedForms :
        /\ endpoint_create(u, f) => UNCHANGED endpoints
        /\ \A eid \in EndpointIdsTried :
               endpoint_update(u, eid, f) => UNCHANGED endpoints

----------------------------------------------------------------------------
(* Referential integrity                                                    *)

C14_EveryReferenceResolves ==
    /\ \A r \in DOMAIN requests : requests[r].endpoint_id \in DOMAIN endpoints
    /\ \A c \in DOMAIN configs : configs[c].endpoint_id \in DOMAIN endpoints
    /\ \A i \in 1..Len(logs) :
           /\ logs[i].forwarding_config_id \in DOMAIN configs
           /\ logs[i].webhook_request_id \in DOMAIN requests

C14_DeleteCascades ==
    \A u \in Users, eid \in DOMAIN endpoints :
        \A rs \in {RequestsOf(eid)}, cs \in {ConfigsOf(eid)} :
            endpoint_remove(u, eid) /\ endpoints[eid].user_id = u =>
                /\ eid \notin DOMAIN endpoints'
                /\ rs \cap DOMAIN requests' = {}
                /\ cs \cap DOMAIN configs' = {}
                /\ \A i \in 1..Len(logs') :
                       /\ logs'[i].forwarding_config_id \notin cs
                       /\ logs'[i].webhook_request_id \notin rs

----------------------------------------------------------------------------
(* Manual replay                                                            *)

\* the step of a replay that was dispatched
Replayed == nextId'.p = nextId.p + 1

C15_OneAttemptNumberedOne ==
    Replayed =>
        /\ Len(logs') = Len(logs) + 1
        /\ SubSeq(logs', 1, Len(logs)) = logs
        /\ logs'[Len(logs')].attempt_number = 1
        /\ dispatched' = dispatched + 1
        /\ tasks' = tasks

C15_EveryReplayDispatches ==
    \A u \in Users, eid \in DOMAIN endpoints, rid \in DOMAIN requests :
        replay_webhook(u, eid, rid) /\ ReplayOutcome(u, eid, rid) = "replay" =>
            /\ Replayed
            /\ logs'[Len(logs')].webhook_request_id = rid
            /\ logs'[Len(logs')].forwarding_config_id = get_forwarding_config(eid)

\* C15: every manual replay of a stored WebhookRequest performs exactly one
\* delivery attempt with attempt_number = 1 and appends exactly one
\* ForwardingLog row, with no retry and no backoff pause, whatever its outcome
\* and however many attempts were logged for that request before.
C15_ReplayIsOneAttempt ==
    [][C15_OneAttemptNumberedOne /\ C15_EveryReplayDispatches]_vars

\* the automatic delivery of a request logged attempts 1 and 2; its replay
\* failed too and is logged after them, as attempt 1, with nothing queued
C15_Witness ==
    /\ nextId.p > 1
    /\ tasks = <<>>
    /\ Len(logs) >= 3
    /\ \E i \in 1..(Len(logs) - 1) :
           /\ logs[i].attempt_number = 2
           /\ logs[i].webhook_request_id = logs[Len(logs)].webhook_request_id
    /\ logs[Len(logs)].attempt_number = 1
    /\ ~logs[Len(logs)].success
    /\ logs[Len(logs) - 1].attempt_number = 2

----------------------------------------------------------------------------
(* What one call of forward_webhook logs                                    *)

TransportMessages(t) ==
    {"Timeout after " \o ToString(t) \o "s", "Connection refused", OtherError.msg}

C16_RowsConsistent ==
    \A i \in 1..Len(logs) :
        LET row == logs[i]
        IN  /\ row.success <=> (row.status_code # None /\ row.status_code \in 200..299)
            /\ row.success => row.error_message = ""
            /\ row.status_code # None /\ ~row.success =>
                   row.error_message = "HTTP " \o ToString(row.status_code)
            /\ row.status_code = None =>
                   row.error_message \in TransportMessages(configs[1].timeout_seconds)

C16_RowFollowsOutcome ==
    \A a \in AttemptsTried, o \in ForwardOutcomes :
        ForwardOnce(a, o) =>
            LET row == logs'[Len(logs')]
            IN  /\ Len(logs') = Len(logs) + 1
                /\ row.success <=> (o.kind = "response" /\ o.status \in 200..299)
                /\ row.status_code = None <=> o.kind # "response"
                /\ o.kind = "response" => row.status_code = o.status
                /\ o.kind = "response" /\ o.status \notin 200..299 =>
                       row.error_message = "HTTP " \o ToString(o.status)
                /\ o.kind = "timeout" =>
                       row.error_message =
                           "Timeout after " \o ToString(configs[1].timeout_seconds) \o "s"
                /\ o.kind = "connect" => row.error_message = "Connection refused"

\* C16: every row forward_webhook writes classifies its attempt consistently:
\* success is true iff a response with status in 200..299 was received, and
\* then error_message is empty; another response gives success false, the
\* status code and "HTTP <code>"; a timeout gives a null status code and
\* "Timeout after <timeout_seconds>s"; a connection failure a null status code
\* and "Connection refused"; the status code is null exactly for transport
\* failures, and no row has success true with a null or non-2xx status code.
C16_ClassifiedConsistently ==
    []C16_RowsConsistent /\ [][C16_RowFollowsOutcome]_vars

\* the answers at the two sides of the upper edge: 299 delivered, 300 not
C16_Witness ==
    /\ Len(logs) = 2
    /\ logs[1].status_code = 299 /\ logs[1].success /\ logs[1].error_message = ""
    /\ logs[2].status_code = 300 /\ ~logs[2].success
    /\ logs[2].error_message = "HTTP 300"

C17_OneRowPerCall ==
    \A a \in AttemptsTried, o \in ForwardOutcomes :
        ForwardOnce(a, o) =>
            /\ Len(logs') = Len(logs) + 1
            /\ SubSeq(logs', 1, Len(logs)) = logs
            /\ logs'[Len(logs')].attempt_number = a
            /\ logs'[Len(logs')].forwarding_config_id = 1
            /\ logs'[Len(logs')].webhook_request_id = 1

C17_EveryCallLogged == Len(logs) = dispatched

\* C17: a timeout, a connection failure, any other transport error or a
\* non-2xx response is never raised to the caller of forward_webhook: each
\* call returns normally and appends exactly one ForwardingLog row carrying
\* the attempt number it was given.
C17_FailureBecomesRow ==
    []C17_EveryCallLogged /\ [][C17_OneRowPerCall]_vars

\* attempt 10 met a transport error of no named kind and a later call, given
\* attempt 2, a refused connection: two calls, two rows
C17_Witness ==
    /\ dispatched = 2
    /\ Len(logs) = 2
    /\ logs[1].error_message = OtherError.msg /\ logs[1].attempt_number = MaxRetriesLimit
    /\ logs[2].error_message = "Connection refused" /\ logs[2].attempt_number = 2

----------------------------------------------------------------------------
(* The summary of a config's delivery log                                   *)

RowsOf(cid) == {i \in 1..Len(logs) : logs[i].forwarding_config_id = cid}

TimedRowsOf(cid) == {i \in RowsOf(cid) : logs[i].response_time_ms # NoTime}

RECURSIVE TotalTime(_)
TotalTime(I) ==
    IF I = {} THEN 0
    ELSE LET i == CHOOSE x \in I : TRUE
         IN  logs[i].response_time_ms[1] + TotalTime(I \ {i})

C18_StatsOfEveryLog ==
    \A cid \in DOMAIN configs :
        LET st    == get_forwarding_stats(cid)
            n     == Cardinality(RowsOf(cid))
            good  == Cardinality({i \in RowsOf(cid) : logs[i].success})
            timed == Cardinality(TimedRowsOf(cid))
            sum   == TotalTime(TimedRowsOf(cid))
        IN  /\ st.total = n
            /\ st.successes = good
            /\ st.failures = n - good
            /\ n = 0 => st.success_rate = 0
            \* the tenth nearest to good / n * 100
            /\ n > 0 => /\ 2 * (st.success_rate * n - good * 1000) <= n
                        /\ 2 * (good * 1000 - st.success_rate * n) <= n
            /\ timed = 0 => st.avg_response_ms = 0
            \* the integer part of sum / timed
            /\ timed > 0 => /\ st.avg_response_ms * timed <= sum
                            /\ sum < (st.avg_response_ms + 1) * timed

C18_Example ==
    \A cid \in DOMAIN configs :
        (\E i, j, k \in 1..Len(logs) :
            /\ RowsOf(cid) = {i, j, k} /\ i # j /\ j # k /\ i # k
            /\ logs[i].response_time_ms = <<50>> /\ logs[i].success
            /\ logs[j].response_time_ms = <<100>> /\ ~logs[j].success
            /\ logs[k].response_time_ms = <<150>> /\ logs[k].success)
        => get_forwarding_stats(cid) =
               [total |-> 3, successes |-> 2, failures |-> 1,
                success_rate |-> 667, avg_response_ms |-> 100]

\* C18: for every set of ForwardingLog rows of a config, stats returns total =
\* the number of rows, successes = the number of rows with success true,
\* failures = total - successes, success_rate = successes / total * 100 rounded
\* to one decimal (0 when total is 0) and avg_response_ms = the integer part
\* of the mean of the non-null response times over all rows, whether they
\* succeeded or not (0 when there is none); times 50, 100, 150 with successes
\* true, false, true give 3, 2, 1, 66.7 and 100.
C18_StatsComputed == C18_StatsOfEveryLog /\ C18_Example

\* the rows of the example are logged for the first config, in that order
C18_Witness ==
    /\ Len(logs) = 3
    /\ \A i \in 1..3 : logs[i].forwarding_config_id = 1
    /\ logs[1].response_time_ms = <<50>> /\ logs[1].success
    /\ logs[2].response_time_ms = <<100>> /\ ~logs[2].success
    /\ logs[3].response_time_ms = <<150>> /\ logs[3].success
    /\ get_forwarding_stats(1).success_rate = 667

----------------------------------------------------------------------------
(* A response code that is not a number                                     *)

NonNumericForms ==
    { f \in BoundaryForms :
        f.response_code = <<"a", "b", "c">> /\ f.name = <<"a">> }

\* C19: a non-numeric response_code on endpoint create or edit never produces
\* a server error: create falls back to 200 and edit to the endpoint's
\* existing code, and the request is answered with 302.
C19_NonNumericFallsBack ==
    \A u \in Users, f \in NonNumericForms :
        /\ CreateResponse(u, f).status # 500
        /\ can_create_endpoint(u) => CreateResponse(u, f).status = 302
        /\ \A eid \in DOMAIN endpoints :
               endpoints[eid].user_id = u => UpdateResponse(u, eid, f).status = 302

\* an owner below the plan limit submits "abc" for a new endpoint and over an
\* endpoint stored with code 599, and both requests end in the server error
C19_Witness ==
    \E eid \in DOMAIN endpoints, f \in NonNumericForms :
        /\ endpoints[eid].response_code = 599
        /\ can_create_endpoint(endpoints[eid].user_id)
        /\ CreateResponse(endpoints[eid].user_id, f) = ServerError
        /\ UpdateResponse(endpoints[eid].user_id, eid, f) = ServerError

----------------------------------------------------------------------------
(* The plan limit                                                           *)

\* C20: in every reachable state, also when creates of the same user are
\* handled concurrently, a user owns no more endpoints than the plan allows
\* (2 for free), and a create issued when the count has reached the limit is
\* answered with 403 and creates no endpoint.
C20_WithinPlanLimit ==
    \A u \in Users :
        /\ get_endpoint_count(u) <= PLAN_ENDPOINT_LIMITS(Plan(u))
        /\ get_endpoint_count(u) >= PLAN_ENDPOINT_LIMITS(Plan(u)) =>
               \A f \in BoundaryForms :
                   CreateOutcome(u, f) \in {"create", "limit"} =>
                       /\ CreateOutcome(u, f) = "limit"
                       /\ CreateResponse(u, f).status = 403

\* a user with one endpoint stored has two creates past the plan check, both
\* counted against that one endpoint
C20_Witness ==
    \E u \in Users, j, k \in DOMAIN pending :
        /\ j # k
        /\ pending[j].op = "create" /\ pending[j].endpoint.user_id = u
        /\ pending[k].op = "create" /\ pending[k].endpoint.user_id = u
        /\ get_endpoint_count(u) = 1

----------------------------------------------------------------------------
(* What a replay needs                                                      *)

\* the endpoint has an active forwarding config
ForwardsActively(eid) ==
    \E c \in DOMAIN configs : configs[c].endpoint_id = eid /\ configs[c].is_active

\* the request id names a request stored for that endpoint
StoredFor(rid, eid) == rid \in DOMAIN requests /\ requests[rid].endpoint_id = eid

C21_RefusedWithFwdError ==
    \A eid \in DOMAIN endpoints, rid \in RequestIdsTried :
        ~(ForwardsActively(eid) /\ StoredFor(rid, eid)) =>
            LET r == ReplayResponse(endpoints[eid].user_id, eid, rid)
            IN  /\ r.status = 302
                /\ r.loc[1] = "/endpoints/{id}" /\ r.loc[2] = eid
                /\ r.loc[3] \in {"Forwarding+not+configured+or+inactive",
                                 "Request+not+found"}

C21_RefusedDoesNothing ==
    \A u \in Users, eid \in EndpointIdsTried, rid \in RequestIdsTried :
        replay_webhook(u, eid, rid) /\ ~(ForwardsActively(eid) /\ StoredFor(rid, eid))
            => UNCHANGED <<logs, dispatched, tasks, nextId>>

C21_DispatchedOnlyWhenAllowed ==
    nextId'.p = nextId.p + 1 =>
        \E eid \in DOMAIN endpoints, rid \in DOMAIN requests :
            /\ ForwardsActively(eid) /\ StoredFor(rid, eid)
            /\ logs'[Len(logs')].webhook_request_id = rid
            /\ logs'[Len(logs')].forwarding_config_id = get_forwarding_config(eid)

\* C21: a replay dispatches a delivery and appends a ForwardingLog row only
\* if the endpoint has an active ForwardingConfig and the request id names a
\* WebhookRequest stored for that same endpoint; when the config is missing
\* or inactive, or the request id is unknown or belongs to another endpoint,
\* the replay is refused with an fwd_error redirect, nothing is dispatched
\* and no log row is appended.
C21_ReplayNeedsConfigAndRequest ==
    /\ []C21_RefusedWithFwdError
    /\ [][C21_RefusedDoesNothing /\ C21_DispatchedOnlyWhenAllowed]_vars

\* one owner has an endpoint with a stored request and no config, and another
\* endpoint that forwards actively: the request is not that endpoint's
C21_Witness ==
    \E a, b \in DOMAIN endpoints, rid \in DOMAIN requests :
        /\ a # b /\ endpoints[a].user_id = endpoints[b].user_id
        /\ StoredFor(rid, a) /\ get_forwarding_config(a) = 0
        /\ ForwardsActively(b)
        /\ ReplayOutcome(endpoints[b].user_id, b, rid) = "no_request"
        /\ ReplayOutcome(endpoints[a].user_id, a, rid) = "no_forwarding"
        /\ nextId.p = 1

----------------------------------------------------------------------------
(* The order of the rows of one delivery sequence                           *)

\* the rows a sequence has written number 1, 2, ... without gap or repeat, and
\* the attempt in flight is the one after the last row written
C22_RowsInAttemptOrder ==
    \A t \in DOMAIN tasks :
        LET k == tasks[t]
        IN  /\ Numbered(k.rows)
            /\ k.pc = "inflight" => k.attempt = Len(k.rows) + 1
            /\ k.pc \in {"sleep", "commit"} => k.attempt = Len(k.rows)

\* a sequence sends attempt n + 1 only with the row of attempt n written, and
\* each row it writes comes after its earlier rows, which it leaves as written
C22_NextAfterRowWritten ==
    \A t \in DOMAIN tasks \cap DOMAIN tasks' :
        /\ tasks'[t].attempt # tasks[t].attempt =>
               /\ tasks'[t].attempt = tasks[t].attempt + 1
               /\ Len(tasks[t].rows) = tasks[t].attempt
               /\ tasks[t].attempt >= 1 =>
                      tasks[t].rows[tasks[t].attempt].attempt_number = tasks[t].attempt
        /\ Len(tasks'[t].rows) >= Len(tasks[t].rows)
        /\ Len(tasks'[t].rows) <= Len(tasks[t].rows) + 1
        /\ SubSeq(tasks'[t].rows, 1, Len(tasks[t].rows)) = tasks[t].rows

\* the rows a sequence commits reach the log in that order
C22_CommittedInOrder ==
    \A t \in DOMAIN tasks \ DOMAIN tasks' :
        tasks[t].pc = "commit" =>
            /\ logs' = logs \o tasks[t].rows
            /\ Numbered(SubSeq(logs', Len(logs) + 1, Len(logs')))

\* C22: under any interleaving of automatic delivery sequences and manual
\* replays on the same ForwardingConfig, the rows of one delivery sequence
\* are created in strictly increasing attempt_number order, contiguous from
\* 1, one row per attempt number, and no attempt n + 1 is dispatched before
\* the row of attempt n is written; rows of different sequences interleave.
C22_SequenceOrdered ==
    /\ []C22_RowsInAttemptOrder
    /\ [][C22_NextAfterRowWritten /\ C22_CommittedInOrder]_vars

\* two sequences on one config are under way, one with attempt 3 in flight
\* and one sleeping after attempt 1, and a replay logged its row meanwhile
C22_Witness ==
    /\ DOMAIN tasks = {1, 2}
    /\ tasks[1].forwarding_config_id = tasks[2].forwarding_config_id
    /\ tasks[1].pc = "inflight" /\ tasks[1].attempt = 3 /\ Len(tasks[1].rows) = 2
    /\ tasks[2].pc = "sleep" /\ Len(tasks[2].rows) = 1
    /\ Len(logs) = 1 /\ logs[1].attempt_number = 1
    /\ logs[1].forwarding_config_id = tasks[1].forwarding_config_id

----------------------------------------------------------------------------
(* What a task holds while it is suspended                                  *)

\* the rows a task has flushed into its own session and not yet committed
Uncommitted(t) == tasks[t].rows

\* the task waits for the target's answer or sleeps between two attempts
Suspended(t) == tasks[t].pc \in {"inflight", "sleep"}

\* C23: no task is suspended in the forwarding dispatch call or in the
\* inter-attempt backoff sleep while its storage session has an open
\* transaction with uncommitted writes: the background delivery task holds
\* no uncommitted ForwardingLog write during a backoff sleep or during the
\* next attempt's network call.
C23_NothingHeldWhileSuspended ==
    \A t \in DOMAIN tasks : Suspended(t) => Uncommitted(t) = <<>>

\* a task is in the call of attempt 3 with the rows of attempts 1 and 2
\* flushed and uncommitted, after sleeping twice
C23_Witness ==
    \E t \in DOMAIN tasks :
        /\ tasks[t].pc = "inflight" /\ tasks[t].attempt = 3
        /\ Len(Uncommitted(t)) = 2
        /\ Len(tasks[t].pauses) = 2
        /\ \A i \in 1..Len(logs) :
               logs[i].webhook_request_id # tasks[t].webhook_request_id

----------------------------------------------------------------------------
(* A stored request stays as it was stored                                  *)

C24_StoredRequestKept ==
    \A r \in DOMAIN requests :
        IF r \in DOMAIN requests'
        THEN requests'[r] = requests[r]
        ELSE /\ requests[r].endpoint_id \in DOMAIN endpoints
             /\ requests[r].endpoint_id \notin DOMAIN endpoints'

\* C24: a stored WebhookRequest is immutable: no operation (further inbound
\* calls, endpoint update, forwarding save or delete, automatic delivery,
\* replay) changes any of its fields, and it is removed only by the deletion
\* of its owning endpoint; the WebhookRequests of a live endpoint only grow.
C24_RequestImmutable == [][C24_StoredRequestKept]_vars

\* the first request is as it was stored after a further call was accepted,
\* its endpoint was edited, a second endpoint was created and deleted, the
\* delivery committed and a replay was logged
C24_Witness ==
    /\ 1 \in DOMAIN requests
    /\ requests[1] = store_webhook_request(1, [len |-> 2, invalid |-> 0])
    /\ 2 \in DOMAIN requests
    /\ endpoints[1].response_code = 404
    /\ nextId.e = 3 /\ DOMAIN endpoints = {1}
    /\ tasks = <<>>
    /\ nextId.p > 1
    /\ Len(logs) >= 2

----------------------------------------------------------------------------
(* When a request is forwarded automatically                                *)

\* the task finds its config, active, and its request
FindsActive(t) ==
    /\ tasks[t].forwarding_config_id \in DOMAIN configs
    /\ configs[tasks[t].forwarding_config_id].is_active
    /\ tasks[t].webhook_request_id \in DOMAIN requests

\* a call is ingested: a task is scheduled for its request exactly when the
\* endpoint has an active config, and tasks are scheduled by nothing else
C25_ScheduledIfActive ==
    /\ \A r \in DOMAIN requests' \ DOMAIN requests :
           \A eid \in {requests'[r].endpoint_id} :
               IF ForwardsActively(eid)
               THEN \E t \in DOMAIN tasks' \ DOMAIN tasks :
                        /\ tasks'[t] = NewTask(get_forwarding_config(eid), r, eid)
                        /\ DOMAIN tasks' = DOMAIN tasks \cup {t}
               ELSE tasks' = tasks
    /\ DOMAIN tasks' \ DOMAIN tasks # {} => DOMAIN requests' # DOMAIN requests

\* a queued task starts: it sends attempt 1 if it finds its config active and
\* its request, and otherwise ends with nothing sent and nothing logged
C25_StartsIfStillActive ==
    \A t \in DOMAIN tasks :
        tasks[t].pc = "start" /\ (t \notin DOMAIN tasks' \/ tasks'[t].pc # "start") =>
            IF FindsActive(t)
            THEN /\ t \in DOMAIN tasks' /\ tasks'[t].attempt = 1
                 /\ tasks'[t].pc = "inflight"
                 /\ dispatched' = dispatched + 1
            ELSE /\ t \notin DOMAIN tasks'
                 /\ dispatched' = dispatched
                 /\ logs' = logs

\* a task that was queued has sent nothing and holds no row
C25_QueuedSentNothing ==
    \A t \in DOMAIN tasks :
        tasks[t].pc = "start" => tasks[t].attempt = 0 /\ tasks[t].rows = <<>>

\* C25: an automatic delivery attempt for an ingested request is dispatched
\* only if the endpoint's ForwardingConfig exists and is active both when the
\* call is ingested and when the detached task re-reads it in its own
\* session: with the config absent or inactive at ingestion no task is
\* scheduled, and with the config deleted or deactivated, or the request
\* gone, by the time the task starts, the task makes zero attempts and writes
\* zero ForwardingLog rows.
C25_ForwardedOnlyWhileActive ==
    /\ []C25_QueuedSentNothing
    /\ [][C25_ScheduledIfActive /\ C25_StartsIfStillActive]_vars

\* a task is queued for a stored request and its config was deactivated since
C25_Witness ==
    \E t \in DOMAIN tasks :
        /\ tasks[t].pc = "start"
        /\ tasks[t].webhook_request_id \in DOMAIN requests
        /\ tasks[t].forwarding_config_id \in DOMAIN configs
        /\ ~configs[tasks[t].forwarding_config_id].is_active
        /\ dispatched = 0

\* C26: a call accepted by an endpoint whose ForwardingConfig is present and
\* active, endpoint and config staying as they are, leads under fair
\* scheduling of the detached task to a completed delivery sequence: the
\* committed log holds, for that request, a success row or max_retries
\* failure rows.
C26_RowsFor(r) == SelectSeq(logs, LAMBDA l : l.webhook_request_id = r)

C26_AcceptedWhileActive(r) ==
    r \in DOMAIN requests /\ AutoForward(requests[r].endpoint_id)

C26_SequenceCompleted(r) ==
    LET rows == C26_RowsFor(r)
        cid  == get_forwarding_config(requests[r].endpoint_id)
    IN  /\ r \in DOMAIN requests
        /\ \/ \E i \in 1..Len(rows) : rows[i].success
           \/ Len(SelectSeq(rows, LAMBDA l : ~l.success)) = configs[cid].max_retries

C26_DeliveryCompletes ==
    \A r \in RequestIdsTried :
        C26_AcceptedWhileActive(r) ~> C26_SequenceCompleted(r)

\* two accepted calls, both delivered to the end, one of them by using up
\* every retry
C26_Witness ==
    /\ \A r \in RequestIdsTried :
           C26_AcceptedWhileActive(r) /\ C26_SequenceCompleted(r)
    /\ \E r \in RequestIdsTried :
           /\ \A i \in 1..Len(C26_RowsFor(r)) : ~C26_RowsFor(r)[i].success
           /\ Len(C26_RowsFor(r)) = MaxRetriesLimit

----------------------------------------------------------------------------
(* Overlapping inbound calls to one endpoint                                *)

\* C27: however inbound calls to one endpoint interleave, each one reading the
\* endpoint and writing request_count from what it read, the committed
\* request_count never exceeds the number of committed WebhookRequests: a
\* call that commits adds one request and raises the counter by at most 1
\* (an increment may be lost, none is counted twice), and a call that is
\* rolled back adds neither a request nor an increment.
C27_CountWithinStored ==
    \A e \in DOMAIN endpoints : endpoints[e].request_count <= Stored(e)

C27_CommitOrRollback ==
    \A h \in DOMAIN inbound :
        \A eid \in {inbound[h].endpoint_id}, passes \in {Commits(h)} :
            ReceiveWrite(h) =>
                IF passes
                THEN /\ Stored(eid)' = Stored(eid) + 1
                     /\ endpoints'[eid].request_count
                            <= endpoints[eid].request_count + 1
                     /\ \A e \in DOMAIN endpoints \ {eid} :
                            Stored(e)' = Stored(e) /\ endpoints'[e] = endpoints[e]
                ELSE UNCHANGED <<endpoints, requests, tasks, logs>>

C27_NeverCountedTwice == []C27_CountWithinStored /\ [][C27_CommitOrRollback]_vars

\* of two calls that loaded the endpoint with request_count 0, one has
\* committed and the other is still to write the 1 it computed
C27_Witness ==
    \E h \in DOMAIN inbound :
        /\ Commits(h)
        /\ inbound[h].endpoint.request_count = 0
        /\ endpoints[inbound[h].endpoint_id].request_count = 1
        /\ Stored(inbound[h].endpoint_id) = 1

----------------------------------------------------------------------------
(* Rejected inbound calls                                                   *)

\* the endpoint is unknown (404), deactivated (410), or the call is too
\* large by the length it declares or by the body it carries (413)
C28_Rejected(eid, i) ==
    \/ eid \notin DOMAIN endpoints
    \/ ~endpoints[eid].is_active
    \/ PrecheckRejects(i.content_length)
    \/ BodyTooLarge(i.body)

\* C28: an inbound call that ends in a rejection (404, 410, 413 by the
\* declared length or by the size read) changes nothing: no WebhookRequest,
\* no change of request_count, no forwarding task, no log row.
C28_RejectionChangesNothing ==
    \A eid \in EndpointIdsTried, i \in InboundCalls :
        C28_Rejected(eid, i) /\ receive_webhook(eid, i.content_length, i.body) =>
            /\ UNCHANGED <<endpoints, requests, configs, logs, tasks,
                           nextId, dispatched>>
            /\ \A status \in {ReceiveResponse(eid, i.content_length, i.body).status} :
                   status \in {404, 410, 413}

C28_RejectedCallsLeaveNoTrace == [][C28_RejectionChangesNothing]_vars

\* a deactivated endpoint that holds a request and still has room for
\* another, its delivery under way, and an unknown endpoint id to call
C28_Witness ==
    \E eid \in DOMAIN endpoints :
        /\ ~endpoints[eid].is_active
        /\ Stored(eid) = 1 /\ endpoints[eid].request_count = 1
        /\ nextId.r <= MaxIngest
        /\ \E t \in DOMAIN tasks : tasks[t].pc = "inflight"
        /\ \E other \in EndpointIdsTried : other \notin DOMAIN endpoints

----------------------------------------------------------------------------
(* The rows of an automatic delivery become visible together                *)

\* the retry sequence of the task has ended: its last row is a success or
\* the row of attempt max_retries
C29_SequenceEnded(k) ==
    /\ k.rows # <<>>
    /\ \/ k.rows[Len(k.rows)].success
       \/ Len(k.rows) = k.max_retries
    /\ \A i \in 1..(Len(k.rows) - 1) : ~k.rows[i].success

\* a step of the task before its commit: the start, an attempt flushed, a
\* sleep ended, or the exception that ends the task
C29_StepBeforeCommit(t) ==
    /\ tasks[t].pc # "commit"
    /\ (t \notin DOMAIN tasks' \/ tasks'[t] # tasks[t])

C29_CommitOfTask(t) ==
    /\ tasks[t].pc = "commit"
    /\ t \notin DOMAIN tasks'

C29_VisibleOnlyAtCommit ==
    /\ \A t \in DOMAIN tasks :
           C29_StepBeforeCommit(t) => logs' = logs
    /\ \A t \in DOMAIN tasks :
           C29_CommitOfTask(t) =>
               /\ C29_SequenceEnded(tasks[t])
               /\ logs' = logs \o tasks[t].rows \/ logs' = logs
    /\ Len(logs') > Len(logs) =>
           \/ \E t \in DOMAIN tasks : C29_CommitOfTask(t)
           \/ nextId'.p = nextId.p + 1 /\ Len(logs') = Len(logs) + 1

\* C29: the log rows an automatic delivery sequence writes are committed in
\* one step, once, after the retry sequence has ended; before that step the
\* committed log holds none of them, and a task that raises in mid-sequence
\* leaves none behind: the others see no row of the sequence or all of them.
C29_RowsCommittedTogether == [][C29_VisibleOnlyAtCommit]_vars

\* a delivery that failed twice has ended: both rows are in the committed log
\* and nothing else is, no replay having been made
C29_Witness ==
    /\ tasks = <<>>
    /\ nextId.p = 1
    /\ Len(logs) = 2
    /\ logs[1].attempt_number = 1 /\ ~logs[1].success
    /\ logs[2].attempt_number = 2 /\ ~logs[2].success

----------------------------------------------------------------------------
(* The length of endpoint names                                             *)

C30_TooLong(f) == Len(Strip(FormText(f.name))) > NameLimit

\* C30 as stated: update validates the name as create does: an update with a
\* name of more than 255 characters is answered 422 and leaves the endpoint
\* unchanged, so every stored endpoint name has at most 255 characters
\* after any sequence of creates and updates.
C30_UpdateRevalidatesName ==
    /\ \A e \in DOMAIN endpoints : Len(endpoints[e].name) <= NameLimit
    /\ \A eid \in DOMAIN endpoints, f \in NameForms :
           C30_TooLong(f) =>
               /\ UpdateResponse(endpoints[eid].user_id, eid, f).status = 422
               /\ UpdateOutcome(endpoints[eid].user_id, eid, f) # "update"

\* an endpoint stored under a name of 256 characters, a name with which its
\* owner could not have created it
C30_Witness ==
    \E e \in DOMAIN endpoints, f \in NameForms :
        /\ Len(endpoints[e].name) = NameLimit + 1
        /\ endpoints[e].name = Strip(FormText(f.name))
        /\ CreateOutcome(endpoints[e].user_id, f) = "name_too_long"
        /\ CreateResponse(endpoints[e].user_id, f).status = 422
        /\ UpdateResponse(endpoints[e].user_id, e, f).status = 302

====
